---- MODULE Spec2Model ----
(***************************************************************************)
(* Model of nyct_gtfs: NYCTFeed (feed.py), Trip (trip.py), StopTimeUpdate   *)
(* (stop_time_update.py), the static tables (gtfs_static_types.py) and the *)
(* repeated-field wrapper (cpp_parser_wrapper.py).                         *)
(*                                                                         *)
(* Python strings are sequences of one-character strings, so that split,   *)
(* slicing and substring tests are computed as the code computes them.     *)
(* Python values that cross an interface (arguments, return values) are    *)
(* tagged records; a raised exception is the outcome Raise(type).          *)
(* A naive local datetime is the number of seconds on the local wall       *)
(* clock; a timedelta is a number of seconds.                              *)
(***************************************************************************)
EXTENDS Integers, Sequences, FiniteSets, TLC

VARIABLES feed, op, ret, feed_url, fetched, held, stop_time, repeated_field, iterators

vars == <<feed, op, ret, feed_url, fetched, held, stop_time, repeated_field, iterators>>

\* the variables outside the NYCTFeed object, its caller's last call and the network
objects == <<held, stop_time, repeated_field, iterators>>

(***************************************************************************)
(* Python values and outcomes                                              *)
(***************************************************************************)
None == [t |-> "NoneType"]
PyStr(s) == [t |-> "str", s |-> s]
PyList(l) == [t |-> "list", l |-> l]
PyInt(i) == [t |-> "int", i |-> i]
PyBool(b) == [t |-> "bool", b |-> b]
PyDatetime(d) == [t |-> "datetime", d |-> d]
Raise(e) == [t |-> "raise", e |-> e]

IsRaise(x) == x.t = "raise"

(***************************************************************************)
(* str operations                                                          *)
(***************************************************************************)
\* str.find: the least 1-based index at which sub occurs in s, 0 if none
Find(s, sub) ==
    LET hits == {i \in 1..(Len(s) - Len(sub) + 1) : SubSeq(s, i, i + Len(sub) - 1) = sub}
    IN IF hits = {} THEN 0 ELSE CHOOSE i \in hits : \A j \in hits : i <= j

\* the `in` operator on two strings
Contains(s, sub) == Find(s, sub) # 0

\* str.split(sep): the list of the parts between non-overlapping, leftmost occurrences of sep
RECURSIVE Split(_, _)
Split(s, sep) ==
    LET i == Find(s, sep)
    IN IF i = 0 THEN <<s>>
       ELSE <<SubSeq(s, 1, i - 1)>> \o Split(SubSeq(s, i + Len(sep), Len(s)), sep)

\* s[-n:]
LastChars(s, n) == IF Len(s) <= n THEN s ELSE SubSeq(s, Len(s) - n + 1, Len(s))

\* membership of x in a list
InList(x, l) == \E i \in 1..Len(l) : l[i] = x

(***************************************************************************)
(* datetime                                                                *)
(***************************************************************************)
\* offset of the local zone from UTC in seconds (the tests read feed times as US Eastern standard time)
UtcOffset == -18000

\* datetime.datetime.fromtimestamp: POSIX seconds to naive local wall-clock time
fromtimestamp(ts) == ts + UtcOffset

\* datetime.timedelta(minutes=m)
timedelta_minutes(m) == m * 60

\* time_utilities.parse_timestamp correcting from 30 minutes on
parse_timestamp_inclusive(timestamp, feed_datetime) ==
    LET raw_datetime == fromtimestamp(timestamp)
    IN IF feed_datetime = None THEN raw_datetime
       ELSE IF raw_datetime >= feed_datetime.d + timedelta_minutes(30)
            THEN raw_datetime - timedelta_minutes(60)
            ELSE raw_datetime

\* time_utilities.parse_timestamp; feed_datetime is None or a wall-clock time
parse_timestamp(timestamp, feed_datetime) ==
    LET raw_datetime == fromtimestamp(timestamp)
    IN IF feed_datetime = None THEN raw_datetime
       ELSE IF raw_datetime > feed_datetime.d + timedelta_minutes(30)
            THEN raw_datetime - timedelta_minutes(60)
            ELSE raw_datetime

\* the decimal digits, and the two-digit rendering of a number below 100
Digits == <<"0", "1", "2", "3", "4", "5", "6", "7", "8", "9">>
IsDigits(s) == \A i \in 1..Len(s) : \E n \in 1..10 : Digits[n] = s[i]
DigitValue(c) == (CHOOSE n \in 1..10 : Digits[n] = c) - 1
TwoDigits(n) == <<Digits[(n \div 10) + 1], Digits[(n % 10) + 1]>>

\* int of a string of decimal digits
RECURSIVE DecimalValue(_)
DecimalValue(s) ==
    IF s = <<>> THEN 0
    ELSE 10 * DecimalValue(SubSeq(s, 1, Len(s) - 1)) + DigitValue(s[Len(s)])

\* float(s) for a string of decimal digits, the form of the first segment of a trip_id; every
\* other string is taken as not a number
PyFloat(x) == [t |-> "float", x |-> x]
float(s) ==
    IF s = <<>> \/ ~IsDigits(s) THEN Raise("ValueError") ELSE PyFloat(DecimalValue(s))

\* the number of days of month m of year y
DaysIn(y, m) ==
    IF m = 2 THEN (IF (y % 4 = 0 /\ y % 100 # 0) \/ y % 400 = 0 THEN 29 ELSE 28)
    ELSE IF m \in {4, 6, 9, 11} THEN 30 ELSE 31

\* the number of days from 1970-01-01 to the date y-m-d
DaysFromCivil(y, m, d) ==
    LET yy == IF m <= 2 THEN y - 1 ELSE y
        era == yy \div 400
        yoe == yy - era * 400
        mp == IF m > 2 THEN m - 3 ELSE m + 9
        doy == ((153 * mp + 2) \div 5) + d - 1
        doe == yoe * 365 + (yoe \div 4) - (yoe \div 100) + doy
    IN era * 146097 + doe - 719468

\* datetime.datetime.strptime(s, "%Y%m%d").date() for a string of eight digits; every other
\* string is taken as not a date
strptime_date(s) ==
    IF Len(s) # 8 \/ ~IsDigits(s) THEN Raise("ValueError")
    ELSE LET y == DecimalValue(SubSeq(s, 1, 4))
             m == DecimalValue(SubSeq(s, 5, 6))
             d == DecimalValue(SubSeq(s, 7, 8))
         IN IF y < 1 \/ m \notin 1..12 \/ d < 1 \/ d > DaysIn(y, m) THEN Raise("ValueError")
            ELSE [t |-> "date", y |-> y, m |-> m, d |-> d]

\* datetime.datetime.combine(date, datetime.time.min): midnight of the date on the wall clock
combine_midnight(date) == DaysFromCivil(date.y, date.m, date.d) * 86400

\* strftime('%H:%M:%S') of a wall-clock time
strftime(d) ==
    LET tod == d % 86400
    IN TwoDigits(tod \div 3600) \o <<":">> \o TwoDigits((tod % 3600) \div 60)
          \o <<":">> \o TwoDigits(tod % 60)

(***************************************************************************)
(* Decoded feed messages (gtfs_realtime_pb2 / nyct_subway_pb2)             *)
(*   TripDescriptor  [trip_id, route_id, train_id, is_assigned]            *)
(*   StopTimeUpdate  [stop_id]                                             *)
(*   TripUpdate      [trip, stop_time_update]                              *)
(*   VehiclePosition [trip, timestamp, stop_id, current_status,            *)
(*                    current_stop_sequence]                               *)
(*   Alert           [informed_entity], a list of [trip]                   *)
(*   FeedEntity      [field, trip_update | vehicle | alert]                *)
(*   FeedMessage     [header, entity]                                      *)
(***************************************************************************)
\* FeedEntity.HasField
HasField(entity, name) == entity.field = name

(***************************************************************************)
(* Static tables (gtfs_static_types.py): a dict is the list of its items   *)
(***************************************************************************)
\* NYCTFeed._trip_shapes: TripShapes.trip_shapes as loaded from trips.txt, shape id "1..N" only
_trip_shapes ==
    << [k |-> <<"1", ".", ".", "N">>, v |-> [trip_headsign |-> PyStr(<<"2", "4", "2", " ", "S", "t">>)]] >>

\* NYCTFeed._stops: Stations.stops as loaded from stops.txt, stop ids "101N", "106N" and "106"
_stops ==
    << [k |-> <<"1", "0", "1", "N">>, v |-> [stop_name |-> PyStr(<<"2", "4", "2", " ", "S", "t">>)]],
       [k |-> <<"1", "0", "6", "N">>, v |-> [stop_name |-> PyStr(<<"2", "2", "5", " ", "S", "t">>)]],
       [k |-> <<"1", "0", "6">>, v |-> [stop_name |-> PyStr(<<"2", "2", "5", " ", "S", "t">>)]] >>

\* `k in d` and d[k] on a dict
InDict(d, k) == \E i \in 1..Len(d) : d[i].k = k
Item(d, k) == d[CHOOSE i \in 1..Len(d) : d[i].k = k].v

\* TripShapes.get_headsign_text
get_headsign_text(shape) ==
    IF ~InDict(_trip_shapes, shape) THEN Raise("ValueError")
    ELSE Item(_trip_shapes, shape).trip_headsign

\* Stations.get_station_name
get_station_name(stop) ==
    IF ~InDict(_stops, stop) THEN Raise("ValueError")
    ELSE Item(_stops, stop).stop_name

(***************************************************************************)
(* StopTimeUpdate (stop_time_update.py), a wrapper of one message          *)
(*   [stop_id, scheduled_track, actual_track]                              *)
(* in which a track of the NYCT extension is None while the field is not   *)
(* set and a str once it is                                                *)
(***************************************************************************)
\* StopTimeUpdate.__init__
StopTimeUpdate(message) == [_stop_time_update |-> message]

\* Extensions[nyct_stop_time_update].HasField
ExtensionHasField(message, name) == message[name] # None

\* StopTimeUpdate.scheduled_track
scheduled_track(self) ==
    IF ~ExtensionHasField(self._stop_time_update, "scheduled_track") THEN None
    ELSE self._stop_time_update.scheduled_track

\* StopTimeUpdate.actual_track
actual_track(self) ==
    IF ~ExtensionHasField(self._stop_time_update, "actual_track") THEN None
    ELSE self._stop_time_update.actual_track

\* StopTimeUpdate.unexpected_track_arrival without the test for a missing track
unexpected_track_arrival_unguarded(self) == scheduled_track(self) # actual_track(self)

\* StopTimeUpdate.unexpected_track_arrival
unexpected_track_arrival(self) ==
    IF scheduled_track(self) = None \/ actual_track(self) = None THEN FALSE
    ELSE scheduled_track(self) # actual_track(self)

\* StopTimeUpdate.stop_name
stop_name(self) ==
    IF IsRaise(get_station_name(self._stop_time_update.stop_id)) THEN None
    ELSE get_station_name(self._stop_time_update.stop_id)

\* StopTimeUpdate.arrival
arrival(self) ==
    IF self._stop_time_update.arrival = None THEN None
    ELSE PyDatetime(fromtimestamp(self._stop_time_update.arrival.time))

\* StopTimeUpdate.departure
departure(self) ==
    IF self._stop_time_update.departure = None THEN None
    ELSE PyDatetime(fromtimestamp(self._stop_time_update.departure.time))

\* bool(x) of Python for None, a str and a datetime
Truthy(x) == x # None /\ (x.t = "str" => x.s # <<>>)

\* StopTimeUpdate.__str__; strftime of self.arrival when it is None raises AttributeError
StopTimeUpdate__str__(self) ==
    LET name == IF stop_name(self) # None THEN stop_name(self).s
                ELSE self._stop_time_update.stop_id
        arriving == IF Truthy(arrival(self))
                    THEN <<"P", "r", "o", "j", "e", "c", "t", "e", "d", " ", "A", "r", "r", "i", "v", "a", "l", " ">>
                         \o strftime(arrival(self).d) \o <<".", " ">>
                    ELSE <<>>
        departing == IF Truthy(departure(self))
                     THEN <<"P", "r", "o", "j", "e", "c", "t", "e", "d", " ", "D", "e", "p", "a", "r", "t", "u", "r", "e", " ">>
                          \o strftime(arrival(self).d) \o <<".", " ">>
                     ELSE <<>>
        scheduled == IF Truthy(scheduled_track(self))
                     THEN <<"S", "c", "h", "e", "d", "u", "l", "e", "d", " ", "t", "o", " ", "a", "r", "r", "i", "v", "e", " ", "o", "n", " ", "t", "r", "a", "c", "k", " ">>
                          \o scheduled_track(self).s \o <<".", " ">>
                     ELSE <<>>
        actual == IF Truthy(actual_track(self))
                  THEN <<"A", "c", "t", "u", "a", "l", "l", "y", " ", "a", "r", "r", "i", "v", "i", "n", "g", " ", "o", "n", " ", "t", "r", "a", "c", "k", " ">>
                       \o actual_track(self).s \o <<".", " ">>
                  ELSE <<>>
    IN IF Truthy(departure(self)) /\ arrival(self) = None THEN Raise("AttributeError")
       ELSE PyStr(name \o <<":", " ">> \o arriving \o departing \o scheduled \o actual)

(***************************************************************************)
(* Trip (trip.py)                                                          *)
(***************************************************************************)
\* Trip.__init__
Trip(trip_update, vehicle_update, applicable_alerts, feed_datetime) ==
    [_trip_update |-> trip_update,
     _vehicle_update |-> vehicle_update,
     _feed_datetime |-> feed_datetime,
     _applicable_alerts |-> IF applicable_alerts = None THEN <<>> ELSE applicable_alerts.l]

\* Trip.underway without the one-minute buffer
underway_no_buffer(self) ==
    IF self._vehicle_update = None
    THEN FALSE
    ELSE fromtimestamp(self._vehicle_update.timestamp) <= self._feed_datetime

\* Trip.underway
underway(self) ==
    IF self._vehicle_update = None
    THEN FALSE
    ELSE LET last_update == fromtimestamp(self._vehicle_update.timestamp)
             buffer_to_account_for_clock_desync == timedelta_minutes(1)
         IN last_update <= self._feed_datetime + buffer_to_account_for_clock_desync

\* Trip.train_assigned
train_assigned(self) == IF self._trip_update.trip.is_assigned THEN TRUE ELSE FALSE

\* Trip.trip_id
trip_id(self) == self._trip_update.trip.trip_id

\* Trip.route_id
route_id(self) == self._trip_update.trip.route_id

\* Trip.last_position_update set back by an hour
last_position_update_hour_back(self) ==
    IF ~underway(self) THEN None
    ELSE PyDatetime(fromtimestamp(self._vehicle_update.timestamp) - timedelta_minutes(60))

\* Trip.last_position_update
last_position_update(self) ==
    IF ~underway(self) THEN None
    ELSE PyDatetime(fromtimestamp(self._vehicle_update.timestamp))

\* Trip.location guarded by the presence of a vehicle update instead of underway
location_unguarded(self) ==
    IF self._vehicle_update = None THEN None
    ELSE PyStr(self._vehicle_update.stop_id)

\* Trip.location
location(self) ==
    IF ~underway(self) THEN None
    ELSE PyStr(self._vehicle_update.stop_id)

\* the str_translation table of Trip.location_status, keyed by the VehicleStopStatus number
str_translation(status) ==
    CASE status = 0 -> "INCOMING_AT"
      [] status = 1 -> "STOPPED_AT"
      [] status = 2 -> "IN_TRANSIT_TO"

\* Trip.location_status
location_status(self) ==
    IF ~underway(self) THEN None
    ELSE PyStr(str_translation(self._vehicle_update.current_status))

\* Trip.current_stop_sequence_index
current_stop_sequence_index(self) ==
    IF ~underway(self) THEN None
    ELSE PyInt(self._vehicle_update.current_stop_sequence)

\* Trip.stop_time_updates: one StopTimeUpdate wrapper per record, in order
stop_time_updates(self) == self._trip_update.stop_time_update

\* Trip.shape_id: trip_id.split('_')[1]
shape_id(self) ==
    LET parts == Split(trip_id(self), <<"_">>)
    IN IF Len(parts) < 2 THEN Raise("IndexError") ELSE PyStr(parts[2])

\* x.split(sep)[1][0]
SecondPartFirstChar(x, sep) ==
    LET parts == Split(x, sep)
    IN IF Len(parts) < 2 THEN Raise("IndexError")
       ELSE IF Len(parts[2]) < 1 THEN Raise("IndexError")
       ELSE PyStr(<<parts[2][1]>>)

\* Trip.direction
direction(self) ==
    IF Contains(trip_id(self), <<".", ".">>)
    THEN IF IsRaise(shape_id(self)) THEN shape_id(self)
         ELSE SecondPartFirstChar(shape_id(self).s, <<".", ".">>)
    ELSE IF IsRaise(shape_id(self)) THEN shape_id(self)
         ELSE SecondPartFirstChar(shape_id(self).s, <<".">>)

\* Trip.has_delay_alert
has_delay_alert(self) == Len(self._applicable_alerts) > 0

\* Trip.headed_to_stop matching a stop id that is part of the stop id of a remaining stop
headed_to_stop_substring(self, stop_id) ==
    \E i \in 1..Len(stop_time_updates(self)) :
        Contains(stop_time_updates(self)[i].stop_id, stop_id)

\* Trip.headed_to_stop
headed_to_stop(self, stop_id) ==
    \E i \in 1..Len(stop_time_updates(self)) : stop_time_updates(self)[i].stop_id = stop_id

\* Trip.start_date
start_date(self) == strptime_date(self._trip_update.trip.start_date)

\* Trip.departure_time, to the whole second
departure_time(self) ==
    LET hundredths == float(Split(trip_id(self), <<"_">>)[1])
    IN IF IsRaise(hundredths) THEN hundredths
       ELSE IF IsRaise(start_date(self)) THEN start_date(self)
       ELSE PyDatetime(combine_midnight(start_date(self)) + ((hundredths.x * 60) \div 100))

\* Trip.headsign_text without the handler of a miss in trips.txt
headsign_text_unhandled(self) ==
    IF IsRaise(shape_id(self)) THEN shape_id(self)
    ELSE get_headsign_text(shape_id(self).s)

\* Trip.headsign_text
headsign_text(self) ==
    IF IsRaise(shape_id(self)) THEN shape_id(self)
    ELSE IF ~IsRaise(get_headsign_text(shape_id(self).s)) THEN get_headsign_text(shape_id(self).s)
    ELSE LET updates == stop_time_updates(self)
         IN IF Len(updates) > 0 /\ stop_name(StopTimeUpdate(updates[Len(updates)])) # None
            THEN stop_name(StopTimeUpdate(updates[Len(updates)]))
            ELSE None

\* the last part of Trip.__str__, appended to string when the trip is underway; the name of
\* the location status is one element of the text
CurrentlyAt(self, string) ==
    IF IsRaise(get_station_name(location(self).s)) THEN get_station_name(location(self).s)
    ELSE PyStr(string \o <<",", " ", "C", "u", "r", "r", "e", "n", "t", "l", "y", " ">> \o <<location_status(self).s>> \o <<" ">>
                 \o get_station_name(location(self).s).s \o <<",", " ", "l", "a", "s", "t", " ", "u", "p", "d", "a", "t", "e", " ", "a", "t", " ">>
                 \o strftime(last_position_update(self).d))

\* Trip.__str__
Trip__str__(self) ==
    IF IsRaise(direction(self)) THEN direction(self)
    ELSE IF IsRaise(headsign_text(self)) THEN headsign_text(self)
    ELSE IF IsRaise(departure_time(self)) THEN departure_time(self)
    ELSE LET delayed == IF has_delay_alert(self) THEN <<"D", "E", "L", "A", "Y", "E", "D", " ">> ELSE <<>>
             bound == IF direction(self) = PyStr(<<"S">>) THEN <<"S", "o", "u", "t", "h", "b", "o", "u", "n", "d">> ELSE <<"N", "o", "r", "t", "h", "b", "o", "u", "n", "d">>
             sign == IF headsign_text(self) # None /\ headsign_text(self).s # <<>>
                     THEN <<" ", "t", "o", " ">> \o headsign_text(self).s
                     ELSE <<" ", "(">> \o shape_id(self).s \o <<")">>
             origin == <<",", " ">>
                          \o (IF underway(self) THEN <<"d", "e", "p", "a", "r", "t", "e", "d", " ", "o", "r", "i", "g", "i", "n">> ELSE <<"d", "e", "p", "a", "r", "t", "s", " ", "o", "r", "i", "g", "i", "n">>)
                          \o <<" ">> \o strftime(departure_time(self).d)
             assigned == IF train_assigned(self) /\ ~underway(self) THEN <<" ", "-", " ", "t", "r", "a", "i", "n", " ", "a", "s", "s", "i", "g", "n", "e", "d">> ELSE <<>>
             string == delayed \o bound \o <<" ">> \o route_id(self) \o sign \o origin \o assigned
         IN IF underway(self) THEN CurrentlyAt(self, string) ELSE PyStr(string)

(***************************************************************************)
(* NYCTFeed (feed.py)                                                      *)
(***************************************************************************)
\* dict, kept as the list of its items in insertion order
DictHas(d, k) == \E i \in 1..Len(d) : d[i].k = k
DictGet(d, k) == d[CHOOSE i \in 1..Len(d) : d[i].k = k].v
\* d[k] = v that leaves the value of an existing key as it is
DictSetKeepFirst(d, k, v) ==
    IF DictHas(d, k) THEN d ELSE Append(d, [k |-> k, v |-> v])

\* d[k] = v that moves an existing key to the end
DictSetMoveToEnd(d, k, v) ==
    Append(SelectSeq(d, LAMBDA e : e.k # k), [k |-> k, v |-> v])

\* d[k] = v on a list of pairs that is appended to without looking for the key
DictSetAppend(d, k, v) == Append(d, [k |-> k, v |-> v])

\* d[k] = v: a new key is appended, an existing key keeps its place and takes the new value
DictSet(d, k, v) ==
    IF DictHas(d, k)
    THEN [i \in 1..Len(d) |-> IF d[i].k = k THEN [k |-> k, v |-> v] ELSE d[i]]
    ELSE Append(d, [k |-> k, v |-> v])

\* the text "https://api-endpoint.mta.info/Dataservice/mtagtfsfeeds/nyct%2Fgtfs", with which every value of _train_to_url begins
UrlBase ==
    <<"h", "t", "t", "p", "s", ":", "/", "/", "a", "p", "i", "-", "e", "n", "d", "p", "o", "i",
      "n", "t", ".", "m", "t", "a", ".", "i", "n", "f", "o", "/", "D", "a", "t", "a", "s", "e",
      "r", "v", "i", "c", "e", "/", "m", "t", "a", "g", "t", "f", "s", "f", "e", "e", "d", "s",
      "/", "n", "y", "c", "t", "%", "2", "F", "g", "t", "f", "s">>

\* NYCTFeed._train_to_url
_train_to_url ==
    << [k |-> <<"1">>, v |-> UrlBase \o <<>>],
       [k |-> <<"2">>, v |-> UrlBase \o <<>>],
       [k |-> <<"3">>, v |-> UrlBase \o <<>>],
       [k |-> <<"4">>, v |-> UrlBase \o <<>>],
       [k |-> <<"5">>, v |-> UrlBase \o <<>>],
       [k |-> <<"6">>, v |-> UrlBase \o <<>>],
       [k |-> <<"7">>, v |-> UrlBase \o <<>>],
       [k |-> <<"S">>, v |-> UrlBase \o <<>>],
       [k |-> <<"G", "S">>, v |-> UrlBase \o <<>>],
       [k |-> <<"A">>, v |-> UrlBase \o <<"-", "a", "c", "e">>],
       [k |-> <<"C">>, v |-> UrlBase \o <<"-", "a", "c", "e">>],
       [k |-> <<"E">>, v |-> UrlBase \o <<"-", "a", "c", "e">>],
       [k |-> <<"H">>, v |-> UrlBase \o <<"-", "a", "c", "e">>],
       [k |-> <<"F", "S">>, v |-> UrlBase \o <<"-", "a", "c", "e">>],
       [k |-> <<"S", "F">>, v |-> UrlBase \o <<"-", "a", "c", "e">>],
       [k |-> <<"S", "R">>, v |-> UrlBase \o <<"-", "a", "c", "e">>],
       [k |-> <<"B">>, v |-> UrlBase \o <<"-", "b", "d", "f", "m">>],
       [k |-> <<"D">>, v |-> UrlBase \o <<"-", "b", "d", "f", "m">>],
       [k |-> <<"F">>, v |-> UrlBase \o <<"-", "b", "d", "f", "m">>],
       [k |-> <<"M">>, v |-> UrlBase \o <<"-", "b", "d", "f", "m">>],
       [k |-> <<"G">>, v |-> UrlBase \o <<"-", "g">>],
       [k |-> <<"J">>, v |-> UrlBase \o <<"-", "j", "z">>],
       [k |-> <<"Z">>, v |-> UrlBase \o <<"-", "j", "z">>],
       [k |-> <<"N">>, v |-> UrlBase \o <<"-", "n", "q", "r", "w">>],
       [k |-> <<"Q">>, v |-> UrlBase \o <<"-", "n", "q", "r", "w">>],
       [k |-> <<"R">>, v |-> UrlBase \o <<"-", "n", "q", "r", "w">>],
       [k |-> <<"W">>, v |-> UrlBase \o <<"-", "n", "q", "r", "w">>],
       [k |-> <<"L">>, v |-> UrlBase \o <<"-", "l">>],
       [k |-> <<"S", "I">>, v |-> UrlBase \o <<"-", "s", "i">>],
       [k |-> <<"S", "S">>, v |-> UrlBase \o <<"-", "s", "i">>],
       [k |-> <<"S", "I", "R">>, v |-> UrlBase \o <<"-", "s", "i">>] >>

\* urllib.parse.scheme_chars
scheme_chars ==
    {"a", "b", "c", "d", "e", "f", "g", "h", "i", "j", "k", "l", "m", "n", "o", "p", "q", "r",
      "s", "t", "u", "v", "w", "x", "y", "z", "A", "B", "C", "D", "E", "F", "G", "H", "I", "J",
      "K", "L", "M", "N", "O", "P", "Q", "R", "S", "T", "U", "V", "W", "X", "Y", "Z", "0", "1",
      "2", "3", "4", "5", "6", "7", "8", "9", "+", "-", "."}

\* urllib.parse.urlparse, as far as its scheme and netloc: the scheme is the text before the
\* first ':' when that text is not empty and made of scheme_chars, and the netloc is the text
\* between a '//' that follows and the next '/', '?' or '#'
urlparse(url) ==
    LET i == Find(url, <<":">>)
        has_scheme == i > 1 /\ \A j \in 1..(i - 1) : url[j] \in scheme_chars
        rest == IF has_scheme THEN SubSeq(url, i + 1, Len(url)) ELSE url
        ends == {j \in 3..Len(rest) : rest[j] \in {"/", "?", "#"}}
        delim == IF ends = {} THEN Len(rest) + 1 ELSE CHOOSE j \in ends : \A k \in ends : j <= k
    IN [scheme |-> IF has_scheme THEN SubSeq(url, 1, i - 1) ELSE <<>>,
        netloc |-> IF Len(rest) >= 2 /\ SubSeq(rest, 1, 2) = <<"/", "/">>
                   THEN SubSeq(rest, 3, delim - 1) ELSE <<>>]

\* the choice of self._feed_url in NYCTFeed.__init__ with a test of the scheme alone
FeedUrlSchemeOnly(feed_specifier) ==
    IF InDict(_train_to_url, feed_specifier) THEN PyStr(Item(_train_to_url, feed_specifier))
    ELSE IF urlparse(feed_specifier).scheme = <<>> THEN Raise("ValueError")
    ELSE PyStr(feed_specifier)

\* the choice of self._feed_url in NYCTFeed.__init__
FeedUrl(feed_specifier) ==
    IF InDict(_train_to_url, feed_specifier) THEN PyStr(Item(_train_to_url, feed_specifier))
    ELSE IF urlparse(feed_specifier).scheme = <<>> \/ urlparse(feed_specifier).netloc = <<>>
         THEN Raise("ValueError")
    ELSE PyStr(feed_specifier)

\* NYCTFeed.last_generated
last_generated(f) == fromtimestamp(f.header.timestamp)

\* NYCTFeed._trip_identifier with the whole train id
_trip_identifier_whole_train_id(trip) == trip.trip_id \o <<" ">> \o trip.train_id

\* NYCTFeed._trip_identifier
_trip_identifier(trip) == trip.trip_id \o <<" ">> \o LastChars(trip.train_id, 7)

\* the inner loop of NYCTFeed.trips over alert.informed_entity, from index i on
RECURSIVE AddAlert(_, _, _)
AddAlert(alerts, alert, i) ==
    IF i > Len(alert.informed_entity) THEN alerts
    ELSE LET key == _trip_identifier(alert.informed_entity[i].trip)
             started == IF ~DictHas(alerts, key) THEN DictSet(alerts, key, <<>>) ELSE alerts
         IN AddAlert(DictSet(started, key, Append(DictGet(started, key), alert)), alert, i + 1)

\* the first loop of NYCTFeed.trips keeping a position update or an alert only when a progress
\* update of its key came before it
RECURSIVE CorrelateSeenOnly(_, _, _)
CorrelateSeenOnly(entities, i, acc) ==
    IF i > Len(entities) THEN acc
    ELSE LET entity == entities[i]
         IN CorrelateSeenOnly(entities, i + 1,
              IF HasField(entity, "trip_update")
              THEN [acc EXCEPT !.trip_updates =
                       DictSet(@, _trip_identifier(entity.trip_update.trip), entity.trip_update)]
              ELSE IF HasField(entity, "vehicle")
                      /\ DictHas(acc.trip_updates, _trip_identifier(entity.vehicle.trip))
              THEN [acc EXCEPT !.vehicle_updates =
                       DictSet(@, _trip_identifier(entity.vehicle.trip), entity.vehicle)]
              ELSE IF HasField(entity, "alert")
                      /\ \A j \in 1..Len(entity.alert.informed_entity) :
                             DictHas(acc.trip_updates,
                                     _trip_identifier(entity.alert.informed_entity[j].trip))
              THEN [acc EXCEPT !.alerts = AddAlert(@, entity.alert, 1)]
              ELSE acc)

\* the first loop of NYCTFeed.trips: the three dicts after the entities from index i on
RECURSIVE Correlate(_, _, _)
Correlate(entities, i, acc) ==
    IF i > Len(entities) THEN acc
    ELSE LET entity == entities[i]
         IN Correlate(entities, i + 1,
              IF HasField(entity, "trip_update")
              THEN [acc EXCEPT !.trip_updates =
                       DictSet(@, _trip_identifier(entity.trip_update.trip), entity.trip_update)]
              ELSE IF HasField(entity, "vehicle")
              THEN [acc EXCEPT !.vehicle_updates =
                       DictSet(@, _trip_identifier(entity.vehicle.trip), entity.vehicle)]
              ELSE IF HasField(entity, "alert")
              THEN [acc EXCEPT !.alerts = AddAlert(@, entity.alert, 1)]
              ELSE acc)

\* NYCTFeed.trips
trips(f) ==
    IF f = None THEN Raise("AttributeError")
    ELSE LET maps == Correlate(f.entity, 1,
                        [trip_updates |-> <<>>, vehicle_updates |-> <<>>, alerts |-> <<>>])
         IN PyList([n \in 1..Len(maps.trip_updates) |->
                LET key == maps.trip_updates[n].k
                    trip_update == maps.trip_updates[n].v
                    vehicle_update ==
                        IF DictHas(maps.vehicle_updates, key)
                        THEN DictGet(maps.vehicle_updates, key) ELSE None
                    applicable_alerts ==
                        IF DictHas(maps.alerts, key)
                        THEN PyList(DictGet(maps.alerts, key)) ELSE None
                IN Trip(trip_update, vehicle_update, applicable_alerts, last_generated(f))])

\* the updated_after test as a comparison of the vehicle timestamp alone
UpdatedAfterSkipsNaive(trip, updated_after) ==
    /\ trip._vehicle_update # None
    /\ fromtimestamp(trip._vehicle_update.timestamp) < updated_after.d

\* the updated_after test of NYCTFeed.filter_trips: TRUE when the trip is skipped
UpdatedAfterSkips(trip, updated_after) ==
    \/ ~underway(trip)
    \/ last_position_update(trip).d < updated_after.d

\* the outcome of one pass through the body of the loop of NYCTFeed.filter_trips:
\* PyBool(TRUE) when the trip is appended, PyBool(FALSE) on `continue`, Raise(..) when it raises
MatchTrip(trip, c) ==
    IF c.line_id # None /\ c.line_id.t = "str" /\ route_id(trip) # c.line_id.s
        THEN PyBool(FALSE)
    ELSE IF c.line_id # None /\ c.line_id.t = "list" /\ ~InList(route_id(trip), c.line_id.l)
        THEN PyBool(FALSE)
    ELSE IF c.line_id # None /\ c.line_id.t \notin {"str", "list"}
        THEN Raise("ValueError")
    ELSE IF c.travel_direction # None /\ IsRaise(direction(trip))
        THEN direction(trip)
    ELSE IF c.travel_direction # None /\ direction(trip) # c.travel_direction
        THEN PyBool(FALSE)
    ELSE IF c.train_assigned # None /\ PyBool(train_assigned(trip)) # c.train_assigned
        THEN PyBool(FALSE)
    ELSE IF c.underway # None /\ PyBool(underway(trip)) # c.underway
        THEN PyBool(FALSE)
    ELSE IF c.shape_id # None /\ c.shape_id.t \in {"str", "list"} /\ IsRaise(shape_id(trip))
        THEN shape_id(trip)
    ELSE IF c.shape_id # None /\ c.shape_id.t = "str" /\ shape_id(trip) # c.shape_id
        THEN PyBool(FALSE)
    ELSE IF c.shape_id # None /\ c.shape_id.t = "list" /\ ~InList(shape_id(trip).s, c.shape_id.l)
        THEN PyBool(FALSE)
    ELSE IF c.shape_id # None /\ c.shape_id.t \notin {"str", "list"}
        THEN Raise("ValueError")
    ELSE IF c.headed_for_stop_id # None /\ c.headed_for_stop_id.t = "str"
            /\ ~headed_to_stop(trip, c.headed_for_stop_id.s)
        THEN PyBool(FALSE)
    ELSE IF c.headed_for_stop_id # None /\ c.headed_for_stop_id.t = "list"
            /\ Cardinality({i \in 1..Len(c.headed_for_stop_id.l) :
                               headed_to_stop(trip, c.headed_for_stop_id.l[i])}) = 0
        THEN PyBool(FALSE)
    ELSE IF c.updated_after # None /\ UpdatedAfterSkips(trip, c.updated_after)
        THEN PyBool(FALSE)
    ELSE IF c.has_delay_alert # None /\ PyBool(has_delay_alert(trip)) # c.has_delay_alert
        THEN PyBool(FALSE)
    ELSE PyBool(TRUE)

\* the loop of NYCTFeed.filter_trips from trip i on, with the list built so far
RECURSIVE FilterLoop(_, _, _, _)
FilterLoop(all, i, c, acc) ==
    IF i > Len(all) THEN PyList(acc)
    ELSE LET m == MatchTrip(all[i], c)
         IN IF IsRaise(m) THEN m
            ELSE FilterLoop(all, i + 1, c, IF m.b THEN Append(acc, all[i]) ELSE acc)

\* NYCTFeed.filter_trips
filter_trips(f, c) ==
    LET all == trips(f)
    IN IF IsRaise(all) THEN all ELSE FilterLoop(all.l, 1, c, <<>>)

(***************************************************************************)
(* Inputs: feed contents and query arguments                               *)
(***************************************************************************)
\* greatest number of entities in a loaded feed
MaxEntities == 2
\* greatest number of entities in a feed that is filtered
MaxFilterEntities == 2
\* greatest number of criteria supplied to one filter_trips call
MaxCriteria == 2
\* greatest length of a trip_id drawn from the alphabet
MaxTripIdLen == 5

\* header.timestamp of the feeds
FeedTimes == {1637960185}
FeedTime == CHOOSE ts \in FeedTimes : TRUE

\* stop ids "106N", "106S", "101N", "106"
Stop106N == <<"1", "0", "6", "N">>
Stop106S == <<"1", "0", "6", "S">>
Stop101N == <<"1", "0", "1", "N">>
Stop106 == <<"1", "0", "6">>

\* trip ids "9_1..N", "9_A.S", "9_0"
Tid1N == <<"9", "_", "1", ".", ".", "N">>
TidAS == <<"9", "_", "A", ".", "S">>
Tid0 == <<"9", "_", "0">>

\* shape ids "1..N", "A.S"
Shape1N == <<"1", ".", ".", "N">>
ShapeAS == <<"A", ".", "S">>

\* train ids: the first two differ only before their last 7 characters
TrainA == <<"0", "1", " ", "1", "5", "0", "8", "+">>
TrainB == <<"/", "1", " ", "1", "5", "0", "8", "+">>
TrainX == <<"0", "A", " ", "2">>

Descriptor(tid, route, train, assigned) ==
    [trip_id |-> tid, route_id |-> route, train_id |-> train, is_assigned |-> assigned]

Desc1N == Descriptor(Tid1N, <<"1">>, TrainA, TRUE)
Desc1Nb == Descriptor(Tid1N, <<"1">>, TrainB, FALSE)
DescAS == Descriptor(TidAS, <<"A">>, TrainX, FALSE)
Desc0 == Descriptor(Tid0, <<"2">>, TrainX, TRUE)

TripUpdateEntity(desc, stops) ==
    [field |-> "trip_update",
     trip_update |-> [trip |-> desc,
                      stop_time_update |-> [i \in 1..Len(stops) |-> [stop_id |-> stops[i]]]]]

VehicleEntity(desc, ts, stop, status, seq) ==
    [field |-> "vehicle",
     vehicle |-> [trip |-> desc, timestamp |-> ts, stop_id |-> stop,
                  current_status |-> status, current_stop_sequence |-> seq]]

AlertEntity(descs) ==
    [field |-> "alert",
     alert |-> [informed_entity |-> [i \in 1..Len(descs) |-> [trip |-> descs[i]]]]]

\* the entities a feed is made of
EntityPool ==
    { TripUpdateEntity(Desc1N, <<Stop106N, Stop101N>>),
      TripUpdateEntity(Desc1Nb, <<Stop101N>>),
      TripUpdateEntity(DescAS, <<Stop106S>>),
      TripUpdateEntity(Desc0, <<>>),
      VehicleEntity(Desc1N, FeedTime - 10, Stop106N, 2, 30),
      VehicleEntity(Desc1Nb, FeedTime + 60, Stop101N, 1, 31),
      VehicleEntity(DescAS, FeedTime + 61, Stop106S, 0, 1),
      AlertEntity(<<Desc1N>>),
      AlertEntity(<<DescAS, Desc1N>>) }

\* the sequences over S of length at most n
SeqsUpTo(S, n) == UNION {[1..k -> S] : k \in 0..n}

FeedMessage(ts, entities) == [header |-> [timestamp |-> ts], entity |-> entities]

\* the feeds loaded in the general specification
Feeds == {FeedMessage(ts, es) : ts \in FeedTimes, es \in SeqsUpTo(EntityPool, MaxEntities)}

Malformed == [t |-> "malformed"]

(***************************************************************************)
(* The feed object and its caller                                          *)
(*   feed      NYCTFeed._feed: None or the decoded FeedMessage             *)
(*   feed_url  NYCTFeed._feed_url                                          *)
(*   fetched   the URLs that requests.get was called with, in order        *)
(*   op        the last call made                                          *)
(*   ret       what that call returned or raised                           *)
(* and the other objects a caller works with                               *)
(*   held            a Trip obtained from NYCTFeed.trips and kept, or a    *)
(*                   ProxyMessage the caller reads                         *)
(*   stop_time       a StopTimeUpdate wrapper and the message under it     *)
(*   repeated_field  a RepeatedField                                       *)
(*   iterators       the RepeatedFieldIterators made by iterating it       *)
(***************************************************************************)
Call(name, args) == [name |-> name, args |-> args]

\* NYCTFeed.__init__ with the feed specifier "1" and fetch_immediately=False
Init ==
    /\ feed = None
    /\ op = Call("__init__", <<>>)
    /\ ret = None
    /\ feed_url = FeedUrl(<<"1">>)
    /\ fetched = <<>>
    /\ held = None
    /\ stop_time = None
    /\ repeated_field = None
    /\ iterators = <<>>

\* NYCTFeed.load_gtfs_bytes parsing into the message that is already in place, which merges
LoadGtfsBytesMerging(F) ==
    \E bytes \in F \cup {Malformed} :
        /\ op' = Call("load_gtfs_bytes", [gtfs_bytes |-> bytes])
        /\ IF bytes = Malformed
           THEN ret' = Raise("DecodeError") /\ UNCHANGED feed
           ELSE /\ ret' = None
                /\ feed' = IF feed = None THEN bytes
                           ELSE [bytes EXCEPT !.entity = feed.entity \o bytes.entity]
        /\ UNCHANGED <<feed_url, fetched, objects>>

\* NYCTFeed.load_gtfs_bytes putting the new message in place before it parses into it
LoadGtfsBytesAssignFirst(F) ==
    \E bytes \in F \cup {Malformed} :
        /\ op' = Call("load_gtfs_bytes", [gtfs_bytes |-> bytes])
        /\ IF bytes = Malformed
           THEN ret' = Raise("DecodeError") /\ feed' = FeedMessage(0, <<>>)
           ELSE ret' = None /\ feed' = bytes
        /\ UNCHANGED <<feed_url, fetched, objects>>

\* NYCTFeed.load_gtfs_bytes, on bytes that decode to a feed of F or that do not decode; the
\* bytes are written as the message they decode to
LoadGtfsBytes(F) ==
    \E bytes \in F \cup {Malformed} :
        /\ op' = Call("load_gtfs_bytes", [gtfs_bytes |-> bytes])
        /\ IF bytes = Malformed
           THEN ret' = Raise("DecodeError") /\ UNCHANGED feed
           ELSE ret' = None /\ feed' = bytes
        /\ UNCHANGED <<feed_url, fetched, objects>>

\* reading the property NYCTFeed.trips
GetTrips ==
    /\ op' = Call("trips", <<>>)
    /\ ret' = trips(feed)
    /\ UNCHANGED <<feed, feed_url, fetched, objects>>

\* the properties of a Trip that a caller reads
TripProperties ==
    {"underway", "train_assigned", "trip_id", "route_id", "last_position_update", "location",
     "location_status", "current_stop_sequence_index", "shape_id", "direction", "has_delay_alert",
     "headsign_text"}

GetProperty(trip, name) ==
    CASE name = "underway" -> PyBool(underway(trip))
      [] name = "train_assigned" -> PyBool(train_assigned(trip))
      [] name = "trip_id" -> PyStr(trip_id(trip))
      [] name = "route_id" -> PyStr(route_id(trip))
      [] name = "last_position_update" -> last_position_update(trip)
      [] name = "location" -> location(trip)
      [] name = "location_status" -> location_status(trip)
      [] name = "current_stop_sequence_index" -> current_stop_sequence_index(trip)
      [] name = "shape_id" -> shape_id(trip)
      [] name = "direction" -> direction(trip)
      [] name = "has_delay_alert" -> PyBool(has_delay_alert(trip))
      [] name = "headsign_text" -> headsign_text(trip)

\* reading a property of the n-th trip: feed.trips[n].<name>
GetTripProperty ==
    /\ feed # None
    /\ \E n \in 1..Len(trips(feed).l), name \in TripProperties :
        /\ op' = Call("trip_property", [n |-> n, name |-> name])
        /\ ret' = GetProperty(trips(feed).l[n], name)
    /\ UNCHANGED <<feed, feed_url, fetched, objects>>

\* the stop ids a caller asks for: "106N", "106S", "106", "101N", "6N" and ""
StopArgs == {Stop106N, Stop106S, Stop106, Stop101N, <<"6", "N">>, <<>>}

\* feed.trips[n].headed_to_stop(stop_id)
HeadedToStop ==
    /\ feed # None
    /\ \E n \in 1..Len(trips(feed).l), stop \in StopArgs :
        /\ op' = Call("headed_to_stop", [n |-> n, stop_id |-> stop])
        /\ ret' = PyBool(headed_to_stop(trips(feed).l[n], stop))
    /\ UNCHANGED <<feed, feed_url, fetched, objects>>

Next == LoadGtfsBytes(Feeds) \/ GetTrips \/ GetTripProperty \/ HeadedToStop

Spec == Init /\ [][Next]_vars

(***************************************************************************)
(* Filtering: a loaded feed and one pending call of filter_trips with at   *)
(* most MaxCriteria criteria supplied                                      *)
(***************************************************************************)
FilterPool ==
    { TripUpdateEntity(Desc1N, <<Stop106N, Stop101N>>),
      TripUpdateEntity(DescAS, <<Stop106S>>),
      TripUpdateEntity(Desc0, <<>>),
      VehicleEntity(Desc1N, FeedTime - 10, Stop106N, 2, 30),
      VehicleEntity(Desc1N, FeedTime + 61, Stop106N, 1, 1),
      VehicleEntity(DescAS, FeedTime - 300, Stop106S, 1, 2),
      AlertEntity(<<Desc1N>>) }

FilterFeeds ==
    {FeedMessage(ts, es) : ts \in FeedTimes, es \in SeqsUpTo(FilterPool, MaxFilterEntities)}

CriteriaNames ==
    {"line_id", "travel_direction", "train_assigned", "underway", "shape_id",
     "headed_for_stop_id", "updated_after", "has_delay_alert"}

\* the values supplied for each parameter of filter_trips; an int is an ill-typed value
LineIdArgs ==
    {PyStr(<<"1">>), PyList(<< <<"1">>, <<"2">> >>), PyList(<< <<"1">> >>), PyList(<<>>), PyInt(1)}
DirectionArgs == {PyStr(<<"N">>), PyStr(<<"S">>)}
BoolArgs == {PyBool(TRUE), PyBool(FALSE)}
ShapeIdArgs ==
    {PyStr(Shape1N), PyList(<<Shape1N, ShapeAS>>), PyList(<<Shape1N>>), PyList(<<>>),
     PyInt(137123)}
StopIdArgs ==
    {PyStr(Stop106N), PyStr(Stop106), PyList(<<Stop106N, Stop106S>>), PyList(<<Stop106N>>),
     PyList(<<>>), PyInt(137123)}
UpdatedAfterArgs ==
    {PyDatetime(fromtimestamp(FeedTime) - 10), PyDatetime(fromtimestamp(FeedTime) - 5)}

NoCriteria == [n \in CriteriaNames |-> None]

Supplied(c) == {n \in CriteriaNames : c[n] # None}

Criteria ==
    {c \in [line_id : LineIdArgs \cup {None},
            travel_direction : DirectionArgs \cup {None},
            train_assigned : BoolArgs \cup {None},
            underway : BoolArgs \cup {None},
            shape_id : ShapeIdArgs \cup {None},
            headed_for_stop_id : StopIdArgs \cup {None},
            updated_after : UpdatedAfterArgs \cup {None},
            has_delay_alert : BoolArgs \cup {None}] :
        Cardinality(Supplied(c)) <= MaxCriteria}

\* a call that has not returned yet
Pending == [t |-> "pending"]

InitFilter ==
    /\ op \in {Call("filter_trips", c) : c \in Criteria}
    /\ feed \in FilterFeeds
    /\ ret = Pending
    /\ feed_url = FeedUrl(<<"1">>)
    /\ fetched = <<>>
    /\ held = None
    /\ stop_time = None
    /\ repeated_field = None
    /\ iterators = <<>>

\* NYCTFeed.filter_trips, called with the criteria op.args, returns or raises
FilterTrips ==
    /\ op.name = "filter_trips"
    /\ ret = Pending
    /\ ret' = filter_trips(feed, op.args)
    /\ UNCHANGED <<feed, op, feed_url, fetched, objects>>

NextFilter == FilterTrips

SpecFilter == InitFilter /\ [][NextFilter]_vars

(***************************************************************************)
(* Trip ids: a loaded feed of one trip whose trip_id is any string over    *)
(* TripIdChars of length at most MaxTripIdLen                              *)
(***************************************************************************)
TripIdChars == {"0", "_", ".", "N"}

TripIdFeeds ==
    {FeedMessage(FeedTime, <<TripUpdateEntity(Descriptor(tid, <<"1">>, TrainX, FALSE), <<>>)>>) :
        tid \in SeqsUpTo(TripIdChars, MaxTripIdLen)}

InitTripId ==
    /\ feed \in TripIdFeeds
    /\ op = Call("load_gtfs_bytes", [gtfs_bytes |-> feed])
    /\ ret = None
    /\ feed_url = FeedUrl(<<"1">>)
    /\ fetched = <<>>
    /\ held = None
    /\ stop_time = None
    /\ repeated_field = None
    /\ iterators = <<>>

NextTripId == GetTrips \/ GetTripProperty

SpecTripId == InitTripId /\ [][NextTripId]_vars

(***************************************************************************)
(* Stop times: a StopTimeUpdate made over a message that has a stop_id     *)
(* only; the caller sets and clears the track fields of the message and    *)
(* reads the properties of the wrapper                                     *)
(***************************************************************************)
\* stop id "!@#", which is not in stops.txt
StopBogus == <<"!", "@", "#">>

\* the values a track field is set to
Tracks == {<<"1">>, <<"2">>, <<>>}

TrackFields == {"scheduled_track", "actual_track"}

StopTimeMessage(stop, scheduled, actual) ==
    [stop_id |-> stop, scheduled_track |-> scheduled, actual_track |-> actual]

InitStopTime ==
    /\ stop_time \in {StopTimeUpdate(StopTimeMessage(stop, None, None)) :
                         stop \in {Stop106N, StopBogus}}
    /\ op = Call("StopTimeUpdate", <<>>)
    /\ ret = None
    /\ feed = None
    /\ feed_url = None
    /\ fetched = <<>>
    /\ held = None
    /\ repeated_field = None
    /\ iterators = <<>>

\* message.Extensions[nyct_stop_time_update].<name> = value
SetTrack ==
    \E name \in TrackFields, value \in Tracks :
        /\ op' = Call("set", [name |-> name, value |-> value])
        /\ ret' = None
        /\ stop_time' = [stop_time EXCEPT !._stop_time_update[name] = PyStr(value)]
        /\ UNCHANGED <<feed, feed_url, fetched, held, repeated_field, iterators>>

\* message.Extensions[nyct_stop_time_update].ClearField(name)
ClearField ==
    \E name \in TrackFields :
        /\ op' = Call("ClearField", [name |-> name])
        /\ ret' = None
        /\ stop_time' = [stop_time EXCEPT !._stop_time_update[name] = None]
        /\ UNCHANGED <<feed, feed_url, fetched, held, repeated_field, iterators>>

StopTimeProperties ==
    {"stop_id", "scheduled_track", "actual_track", "unexpected_track_arrival", "stop_name"}

GetStopTime(self, name) ==
    CASE name = "stop_id" -> PyStr(self._stop_time_update.stop_id)
      [] name = "scheduled_track" -> scheduled_track(self)
      [] name = "actual_track" -> actual_track(self)
      [] name = "unexpected_track_arrival" -> PyBool(unexpected_track_arrival(self))
      [] name = "stop_name" -> stop_name(self)

\* reading a property of the StopTimeUpdate
GetStopTimeProperty ==
    \E name \in StopTimeProperties :
        /\ op' = Call("stop_time_property", [name |-> name])
        /\ ret' = GetStopTime(stop_time, name)
        /\ UNCHANGED <<feed, feed_url, fetched, objects>>

NextStopTime == SetTrack \/ ClearField \/ GetStopTimeProperty

SpecStopTime == InitStopTime /\ [][NextStopTime]_vars

(***************************************************************************)
(* Text: a loaded feed of one trip whose shape id and stop ids are in the  *)
(* static tables or not; the caller reads the trip's properties, the names *)
(* of its stops and its str()                                              *)
(***************************************************************************)
\* greatest number of stop-time updates of the trip
MaxStops == 2

\* trip ids "090300_1..N" and "090300_A.S", start dates "20211126" and "" (field not set)
TidText1N == <<"0", "9", "0", "3", "0", "0", "_", "1", ".", ".", "N">>
TidTextAS == <<"0", "9", "0", "3", "0", "0", "_", "A", ".", "S">>
StartDates == {<<"2", "0", "2", "1", "1", "1", "2", "6">>, <<>>}

DatedDescriptor(tid, route, train, assigned, date) ==
    [trip_id |-> tid, route_id |-> route, train_id |-> train, is_assigned |-> assigned,
     start_date |-> date]

TextDescriptors ==
    {DatedDescriptor(tid, <<"1">>, TrainA, TRUE, date) :
        tid \in {TidText1N, TidTextAS}, date \in StartDates}

\* the vehicle entities for the descriptor: at a stop of stops.txt, at a stop that is not in
\* stops.txt, and future-dated
TextVehicles(desc) ==
    { <<VehicleEntity(desc, FeedTime - 8, Stop106N, 2, 30)>>,
      <<VehicleEntity(desc, FeedTime - 8, StopBogus, 1, 30)>>,
      <<VehicleEntity(desc, FeedTime + 61, StopBogus, 1, 30)>>,
      <<>> }

TextFeedsOf(desc) ==
    {FeedMessage(FeedTime, <<TripUpdateEntity(desc, stop_ids)>> \o vehicle) :
        stop_ids \in SeqsUpTo({Stop101N, StopBogus}, MaxStops),
        vehicle \in TextVehicles(desc)}

TextFeeds == UNION {TextFeedsOf(desc) : desc \in TextDescriptors}

InitText ==
    /\ feed \in TextFeeds
    /\ op = Call("load_gtfs_bytes", [gtfs_bytes |-> feed])
    /\ ret = None
    /\ feed_url = FeedUrl(<<"1">>)
    /\ fetched = <<>>
    /\ held = None
    /\ stop_time = None
    /\ repeated_field = None
    /\ iterators = <<>>

\* str(feed.trips[n])
StrTrip ==
    /\ feed # None
    /\ \E n \in 1..Len(trips(feed).l) :
        /\ op' = Call("__str__", [n |-> n])
        /\ ret' = Trip__str__(trips(feed).l[n])
    /\ UNCHANGED <<feed, feed_url, fetched, objects>>

\* feed.trips[n].stop_time_updates[k].stop_name
GetStopName ==
    /\ feed # None
    /\ \E n \in 1..Len(trips(feed).l) :
        \E k \in 1..Len(stop_time_updates(trips(feed).l[n])) :
            /\ op' = Call("stop_name", [n |-> n, k |-> k])
            /\ ret' = stop_name(StopTimeUpdate(stop_time_updates(trips(feed).l[n])[k]))
    /\ UNCHANGED <<feed, feed_url, fetched, objects>>

NextText == GetTripProperty \/ StrTrip \/ GetStopName

SpecText == InitText /\ [][NextText]_vars

(***************************************************************************)
(* Reloading: loads and queries in any order on one feed object, and a     *)
(* Trip that the caller keeps across later loads                           *)
(***************************************************************************)
\* greatest number of entities in a feed that is loaded again and again
MaxReloadEntities == 2

ReloadPool ==
    { TripUpdateEntity(Desc1N, <<Stop106N>>),
      TripUpdateEntity(DescAS, <<Stop106S>>),
      VehicleEntity(Desc1N, FeedTime - 10, Stop106N, 2, 30),
      AlertEntity(<<Desc1N>>) }

\* two generation times half a minute apart
ReloadTimes == {FeedTime, FeedTime + 30}

ReloadFeeds ==
    {FeedMessage(ts, es) : ts \in ReloadTimes, es \in SeqsUpTo(ReloadPool, MaxReloadEntities)}

\* the criteria of the filter_trips calls
ReloadCriteria ==
    { NoCriteria,
      [NoCriteria EXCEPT !.line_id = PyStr(<<"1">>)],
      [NoCriteria EXCEPT !.underway = PyBool(TRUE)],
      [NoCriteria EXCEPT !.has_delay_alert = PyBool(TRUE)] }

\* reading the property NYCTFeed.last_generated
GetLastGenerated ==
    /\ op' = Call("last_generated", <<>>)
    /\ ret' = IF feed = None THEN Raise("AttributeError") ELSE PyDatetime(last_generated(feed))
    /\ UNCHANGED <<feed, feed_url, fetched, objects>>

\* NYCTFeed.filter_trips called with criteria c
CallFilterTrips ==
    \E c \in ReloadCriteria :
        /\ op' = Call("filter_trips", c)
        /\ ret' = filter_trips(feed, c)
        /\ UNCHANGED <<feed, feed_url, fetched, objects>>

\* trip = feed.trips[n], kept by the caller
HoldTrip ==
    /\ feed # None
    /\ \E n \in 1..Len(trips(feed).l) :
        /\ op' = Call("hold", [n |-> n])
        /\ ret' = None
        /\ held' = trips(feed).l[n]
    /\ UNCHANGED <<feed, feed_url, fetched, stop_time, repeated_field, iterators>>

\* reading a property of the trip that was kept, from the feed's n-th trip of the moment
GetHeldPropertyOfFeed ==
    /\ held # None
    /\ feed # None
    /\ \E name \in TripProperties, n \in 1..Len(trips(feed).l) :
        /\ op' = Call("held_property", [name |-> name])
        /\ ret' = GetProperty(trips(feed).l[n], name)
    /\ UNCHANGED <<feed, feed_url, fetched, objects>>

\* reading a property of the trip that was kept
GetHeldProperty ==
    /\ held # None
    /\ \E name \in TripProperties :
        /\ op' = Call("held_property", [name |-> name])
        /\ ret' = GetProperty(held, name)
    /\ UNCHANGED <<feed, feed_url, fetched, objects>>

NextReload ==
    \/ LoadGtfsBytes(ReloadFeeds)
    \/ GetTrips
    \/ GetLastGenerated
    \/ CallFilterTrips
    \/ HoldTrip
    \/ GetHeldProperty

SpecReload == Init /\ [][NextReload]_vars

(***************************************************************************)
(* Failed loads: loads of bytes that decode or do not, and the queries of  *)
(* the feed object, in any order                                           *)
(***************************************************************************)
NextFailedLoad ==
    \/ LoadGtfsBytes(ReloadFeeds)
    \/ GetTrips
    \/ GetLastGenerated
    \/ CallFilterTrips

SpecFailedLoad == Init /\ [][NextFailedLoad]_vars

(***************************************************************************)
(* cpp_parser_wrapper: RepeatedField and RepeatedFieldIterator over the    *)
(* native layer nyct_gtfs_cpp                                              *)
(***************************************************************************)
\* nyct_gtfs_cpp.get_size: the number of elements of the repeated field behind the pointer
get_size(message_ptr) == Len(message_ptr)

\* nyct_gtfs_cpp.get_repeated_uint_bool_enum, get_repeated_int, get_repeated_double,
\* get_repeated_string and get_repeated_message: the element at the index, and an index out of
\* range is an error
get_repeated(message_ptr, index) ==
    IF index >= 0 /\ index < Len(message_ptr) THEN message_ptr[index + 1]
    ELSE Raise("IndexError")

\* the attribute types RepeatedField.__getitem__ has a native function for
RepeatedTypes ==
    {"UINT64", "UINT32", "BOOL", "ENUM", "INT64", "INT32", "DOUBLE", "FLOAT", "STRING",
     "MESSAGE"}

\* ProxyMessage.__init__
ProxyMessage(message_ptr, is_ext) ==
    [t |-> "ProxyMessage", _message_ptr |-> message_ptr, _is_ext |-> is_ext,
     _cached_attrs |-> <<>>, _cached_exts |-> <<>>]

\* RepeatedField.__init__; the repeated field behind (message_ptr, field_name, ext) is the
\* sequence _message_ptr
RepeatedField(message_ptr, attr_type) ==
    [t |-> "RepeatedField",
     _message_ptr |-> message_ptr, _attr_type |-> attr_type, _len |-> get_size(message_ptr),
     _cached_items |-> [i \in 1..get_size(message_ptr) |-> None]]

\* the position list.__getitem__ of Python reads for an index, negative indices counting from
\* the end, and 0 when it raises IndexError
ListPosition(l, index) ==
    IF index >= 0 /\ index < Len(l) THEN index + 1
    ELSE IF index < 0 /\ index >= 0 - Len(l) THEN Len(l) + index + 1
    ELSE 0

\* RepeatedField.__getitem__: what it returns or raises, and the RepeatedField after it
RepeatedField__getitem__(self, index) ==
    LET at == ListPosition(self._cached_items, index)
    IN IF index >= self._len THEN [ret |-> Raise("IndexError"), self |-> self]
       ELSE IF at = 0 THEN [ret |-> Raise("IndexError"), self |-> self]
       ELSE IF self._cached_items[at] # None THEN [ret |-> self._cached_items[at], self |-> self]
       ELSE IF self._attr_type \notin RepeatedTypes
            THEN [ret |-> Raise("TypeError"), self |-> self]
       ELSE LET raw_result == get_repeated(self._message_ptr, index)
            IN IF IsRaise(raw_result) THEN [ret |-> raw_result, self |-> self]
               ELSE LET result == IF self._attr_type = "MESSAGE" THEN ProxyMessage(raw_result, FALSE)
                                  ELSE raw_result
                    IN [ret |-> result,
                        self |-> [self EXCEPT !._cached_items[at] = result]]

\* RepeatedFieldIterator.__init__
RepeatedFieldIterator == [idx |-> 0]

\* RepeatedFieldIterator.__next__ reading one element too far
RepeatedFieldIterator__next__Skipping(it, self) ==
    LET r == RepeatedField__getitem__(self, it.idx + 1)
    IN IF r.ret = Raise("IndexError")
       THEN [ret |-> Raise("StopIteration"), it |-> [idx |-> 0], self |-> r.self]
       ELSE [ret |-> r.ret, it |-> [idx |-> it.idx + 1], self |-> r.self]

\* RepeatedFieldIterator.__next__: what it returns or raises, the iterator and the
\* RepeatedField after it
RepeatedFieldIterator__next__(it, self) ==
    LET r == RepeatedField__getitem__(self, (it.idx + 1) - 1)
    IN IF r.ret = Raise("IndexError")
       THEN [ret |-> Raise("StopIteration"), it |-> [idx |-> 0], self |-> r.self]
       ELSE [ret |-> r.ret, it |-> [idx |-> it.idx + 1], self |-> r.self]

\* the values a for loop draws from an iterator until it raises, n calls of __next__ at most
RECURSIVE Collect(_, _, _)
Collect(it, self, n) ==
    LET r == RepeatedFieldIterator__next__(it, self)
    IN IF n = 0 \/ IsRaise(r.ret) THEN <<>>
       ELSE <<r.ret>> \o Collect(r.it, r.self, n - 1)

(***************************************************************************)
(* cpp_parser_wrapper: ProxyMessage over the native layer.  A decoded      *)
(* message behind a pointer is                                             *)
(*   [t |-> "message", fields, exts]                                       *)
(* with fields a dict from field name and exts a dict from extension       *)
(* number to [type, repeated, value], type being [name, value]             *)
(***************************************************************************)
AttrType(name, value) == [name |-> name, value |-> value]

\* what nyct_gtfs_cpp.get_type gives for a field or extension the message kind does not have
NoType == AttrType("NONE", 0)

FieldOf(type, repeated, value) == [type |-> type, repeated |-> repeated, value |-> value]

Message(fields, exts) == [t |-> "message", fields |-> fields, exts |-> exts]

\* nyct_gtfs_cpp.get_type(message_ptr, name) and nyct_gtfs_cpp.get_type(message_ptr, "", ext_id)
get_type(message_ptr, name, ext_id) ==
    IF ext_id = -1
    THEN IF InDict(message_ptr.fields, name) THEN Item(message_ptr.fields, name).type ELSE NoType
    ELSE IF InDict(message_ptr.exts, ext_id) THEN Item(message_ptr.exts, ext_id).type ELSE NoType

\* nyct_gtfs_cpp.is_repeated
is_repeated(message_ptr, name, ext_id) ==
    IF ext_id = -1 THEN Item(message_ptr.fields, name).repeated
    ELSE Item(message_ptr.exts, ext_id).repeated

\* nyct_gtfs_cpp.get_uint_bool_enum, get_int, get_double, get_string and get_message, and for a
\* repeated field the elements that get_size and get_repeated_* read
get_value(message_ptr, name, ext_id) ==
    IF ext_id = -1 THEN Item(message_ptr.fields, name).value
    ELSE Item(message_ptr.exts, ext_id).value

\* the attribute types ProxyMessage has a native function for
SingularTypes ==
    {"UINT64", "UINT32", "BOOL", "ENUM", "INT64", "INT32", "DOUBLE", "FLOAT", "STRING",
     "MESSAGE"}

\* the lookup that ProxyMessage.__getattr__ and ProxyMessage.__getitem__ share once the cache
\* has no entry: what is returned or raised, and whether it is cached
ProxyLookup(self, name, ext_id) ==
    LET attr_type == get_type(self._message_ptr, name, ext_id)
    IN IF attr_type.value = 0 THEN [ret |-> Raise("AttributeError"), cache |-> FALSE]
       ELSE IF is_repeated(self._message_ptr, name, ext_id)
            THEN [ret |-> RepeatedField(get_value(self._message_ptr, name, ext_id),
                                        attr_type.name),
                  cache |-> TRUE]
       ELSE IF attr_type.name \notin SingularTypes
            THEN [ret |-> Raise("TypeError"), cache |-> FALSE]
       ELSE LET raw_result == get_value(self._message_ptr, name, ext_id)
            IN [ret |-> IF attr_type.name = "MESSAGE" THEN ProxyMessage(raw_result, FALSE)
                        ELSE raw_result,
                cache |-> TRUE]

\* ProxyMessage.__getitem__ without the test of _is_ext
ProxyMessage__getitem__Unchecked(self, ext) ==
    LET ext_id == ext.number
    IN IF DictHas(self._cached_exts, ext_id)
       THEN [ret |-> DictGet(self._cached_exts, ext_id), self |-> self]
       ELSE LET r == ProxyLookup(self, "", ext_id)
            IN [ret |-> r.ret,
                self |-> IF r.cache
                         THEN [self EXCEPT !._cached_exts = DictSet(@, ext_id, r.ret)]
                         ELSE self]

\* ProxyMessage.__getitem__: what it returns or raises, and the ProxyMessage after it
ProxyMessage__getitem__(self, ext) ==
    LET ext_id == ext.number
    IN IF ~self._is_ext THEN [ret |-> Raise("ValueError"), self |-> self]
       ELSE IF DictHas(self._cached_exts, ext_id)
       THEN [ret |-> DictGet(self._cached_exts, ext_id), self |-> self]
       ELSE LET r == ProxyLookup(self, "", ext_id)
            IN [ret |-> r.ret,
                self |-> IF r.cache
                         THEN [self EXCEPT !._cached_exts = DictSet(@, ext_id, r.ret)]
                         ELSE self]

\* ProxyMessage.__getattr__: what it returns or raises, and the ProxyMessage after it
ProxyMessage__getattr__(self, name) ==
    IF DictHas(self._cached_attrs, name)
    THEN [ret |-> DictGet(self._cached_attrs, name), self |-> self]
    ELSE LET r == ProxyLookup(self, name, -1)
         IN [ret |-> r.ret,
             self |-> IF r.cache
                      THEN [self EXCEPT !._cached_attrs = DictSet(@, name, r.ret)]
                      ELSE self]

\* ProxyMessage.Extensions
Extensions(self) == ProxyMessage(self._message_ptr, TRUE)

(***************************************************************************)
(* RepeatedField: one repeated field, read by index and through iterators  *)
(***************************************************************************)
\* greatest number of elements of the repeated field
MaxLen == 2

\* greatest number of iterators made of the repeated field
MaxIterators == 2

\* the repeated fields: strings, and nested messages
RepeatedFields ==
    {RepeatedField(m, "STRING") : m \in SeqsUpTo({PyStr(<<"a">>), PyStr(<<"b">>)}, MaxLen)}
    \cup {RepeatedField(m, "MESSAGE") :
              m \in SeqsUpTo({[t |-> "message", stop_id |-> Stop101N],
                              [t |-> "message", stop_id |-> Stop106N]}, MaxLen)}

\* the indices read: the range, and one length further on either side
Indices == (0 - (MaxLen + 1))..(MaxLen + 1)

InitRepeated ==
    /\ repeated_field \in RepeatedFields
    /\ iterators = <<>>
    /\ op = Call("__init__", <<>>)
    /\ ret = None
    /\ feed = None
    /\ feed_url = None
    /\ fetched = <<>>
    /\ held = None
    /\ stop_time = None

\* repeated_field[index]
GetItem ==
    \E index \in Indices :
        LET r == RepeatedField__getitem__(repeated_field, index)
        IN /\ repeated_field # None
           /\ op' = Call("__getitem__", [index |-> index])
           /\ ret' = r.ret
           /\ repeated_field' = r.self
           /\ UNCHANGED <<feed, feed_url, fetched, held, stop_time, iterators>>

\* iter(repeated_field): RepeatedField.__iter__
Iter ==
    /\ Len(iterators) < MaxIterators
    /\ op' = Call("__iter__", <<>>)
    /\ iterators' = Append(iterators, RepeatedFieldIterator)
    /\ ret' = RepeatedFieldIterator
    /\ UNCHANGED <<feed, feed_url, fetched, held, stop_time, repeated_field>>

\* next(it) on one of the iterators made
NextItem ==
    \E i \in 1..Len(iterators) :
        LET r == RepeatedFieldIterator__next__(iterators[i], repeated_field)
        IN /\ op' = Call("__next__", [it |-> i])
           /\ ret' = r.ret
           /\ iterators' = [iterators EXCEPT ![i] = r.it]
           /\ repeated_field' = r.self
           /\ UNCHANGED <<feed, feed_url, fetched, held, stop_time>>

NextRepeated == GetItem \/ Iter \/ NextItem

SpecRepeated == InitRepeated /\ [][NextRepeated]_vars

(***************************************************************************)
(* Views: a ProxyMessage over a decoded trip update; the caller reads its  *)
(* fields and extensions, goes on with the views and repeated fields they  *)
(* return, and reads those                                                 *)
(***************************************************************************)
\* nyct_subway_pb2.nyct_trip_descriptor and nyct_subway_pb2.nyct_stop_time_update, and an
\* extension that no message of the feed has
nyct_extension == [number |-> 1001]
other_extension == [number |-> 1002]

NyctTripDescriptorMessage ==
    Message(<< [k |-> "train_id", v |-> FieldOf(AttrType("STRING", 9), FALSE, PyStr(TrainA))],
               [k |-> "is_assigned", v |-> FieldOf(AttrType("BOOL", 7), FALSE, PyBool(TRUE))] >>,
            <<>>)

TripDescriptorMessage ==
    Message(<< [k |-> "trip_id", v |-> FieldOf(AttrType("STRING", 9), FALSE, PyStr(Tid1N))] >>,
            << [k |-> 1001,
                v |-> FieldOf(AttrType("MESSAGE", 10), FALSE, NyctTripDescriptorMessage)] >>)

NyctStopTimeUpdateMessage ==
    Message(<< [k |-> "scheduled_track",
                v |-> FieldOf(AttrType("STRING", 9), FALSE, PyStr(<<"1">>))] >>,
            <<>>)

StopTimeUpdateMessage(stop) ==
    Message(<< [k |-> "stop_id", v |-> FieldOf(AttrType("STRING", 9), FALSE, PyStr(stop))] >>,
            << [k |-> 1001,
                v |-> FieldOf(AttrType("MESSAGE", 10), FALSE, NyctStopTimeUpdateMessage)] >>)

\* a trip update, with one field more of a type that ProxyMessage has no native function for
TripUpdateMessage ==
    Message(<< [k |-> "trip", v |-> FieldOf(AttrType("MESSAGE", 10), FALSE, TripDescriptorMessage)],
               [k |-> "stop_time_update",
                v |-> FieldOf(AttrType("MESSAGE", 10), TRUE,
                              <<StopTimeUpdateMessage(Stop106N), StopTimeUpdateMessage(Stop101N)>>)],
               [k |-> "timestamp", v |-> FieldOf(AttrType("UINT64", 4), FALSE, PyInt(FeedTime))],
               [k |-> "opaque", v |-> FieldOf(AttrType("BYTES", 12), FALSE, PyStr(<<>>))] >>,
            <<>>)

\* the attribute names read
AttrNames ==
    {"trip", "stop_time_update", "timestamp", "opaque", "trip_id", "train_id", "stop_id",
     "bogus"}

ExtensionsRead == {nyct_extension, other_extension}

InitProxy ==
    /\ held = ProxyMessage(TripUpdateMessage, FALSE)
    /\ repeated_field = None
    /\ iterators = <<>>
    /\ op = Call("__init__", <<>>)
    /\ ret = None
    /\ feed = None
    /\ feed_url = None
    /\ fetched = <<>>
    /\ stop_time = None

\* getattr(held, name): ProxyMessage.__getattr__
GetAttr ==
    \E name \in AttrNames :
        LET r == ProxyMessage__getattr__(held, name)
        IN /\ op' = Call("__getattr__", [name |-> name])
           /\ ret' = r.ret
           /\ held' = r.self
           /\ UNCHANGED <<feed, feed_url, fetched, stop_time, repeated_field, iterators>>

\* held[ext]: ProxyMessage.__getitem__
GetExtension ==
    \E ext \in ExtensionsRead :
        LET r == ProxyMessage__getitem__(held, ext)
        IN /\ op' = Call("ProxyMessage.__getitem__", [ext |-> ext])
           /\ ret' = r.ret
           /\ held' = r.self
           /\ UNCHANGED <<feed, feed_url, fetched, stop_time, repeated_field, iterators>>

\* held.Extensions
GetExtensions ==
    /\ op' = Call("Extensions", <<>>)
    /\ ret' = Extensions(held)
    /\ UNCHANGED <<feed, feed_url, fetched, held, stop_time, repeated_field, iterators>>

\* the caller goes on with what the last call returned: a view becomes the view it reads, a
\* repeated field the repeated field it reads
Follow ==
    /\ op.name # "follow"
    /\ ret.t \in {"ProxyMessage", "RepeatedField"}
    /\ op' = Call("follow", <<>>)
    /\ IF ret.t = "ProxyMessage"
       THEN held' = ret /\ UNCHANGED repeated_field
       ELSE repeated_field' = ret /\ UNCHANGED held
    /\ UNCHANGED <<ret, feed, feed_url, fetched, stop_time, iterators>>

NextProxy == GetAttr \/ GetExtension \/ GetExtensions \/ Follow \/ GetItem

SpecProxy == InitProxy /\ [][NextProxy]_vars

(***************************************************************************)
(* Correlation: a loaded feed of at most MaxCorrelateEntities entities,    *)
(* among them progress updates, position updates and alerts with equal     *)
(* and with different trip keys, and one read of NYCTFeed.trips            *)
(***************************************************************************)
MaxCorrelateEntities == 3

\* the trip id of Desc1N under a train id with another ending, and the descriptor that an
\* informed entity without a trip reads as
Desc1Nx == Descriptor(Tid1N, <<"1">>, TrainX, FALSE)
DescDefault == Descriptor(<<>>, <<>>, <<>>, FALSE)

CorrelatePool ==
    { TripUpdateEntity(Desc1N, <<Stop106N>>),
      TripUpdateEntity(Desc1Nb, <<Stop101N>>),
      TripUpdateEntity(DescAS, <<>>),
      VehicleEntity(Desc1N, FeedTime - 10, Stop106N, 2, 30),
      VehicleEntity(Desc1Nb, FeedTime - 20, Stop101N, 1, 31),
      VehicleEntity(Desc1Nx, FeedTime - 30, Stop106N, 1, 1),
      VehicleEntity(Desc0, FeedTime - 40, Stop106S, 0, 1),
      AlertEntity(<<Desc1N>>),
      AlertEntity(<<Desc1N, DescAS>>),
      AlertEntity(<<Desc1N, Desc1N>>),
      AlertEntity(<<Desc0, DescDefault>>) }

CorrelateFeeds ==
    {FeedMessage(FeedTime, es) : es \in SeqsUpTo(CorrelatePool, MaxCorrelateEntities)}

InitCorrelate ==
    /\ feed \in CorrelateFeeds
    /\ op = Call("load_gtfs_bytes", [gtfs_bytes |-> feed])
    /\ ret = None
    /\ feed_url = FeedUrl(<<"1">>)
    /\ fetched = <<>>
    /\ held = None
    /\ stop_time = None
    /\ repeated_field = None
    /\ iterators = <<>>

NextCorrelate == GetTrips

SpecCorrelate == InitCorrelate /\ [][NextCorrelate]_vars

(***************************************************************************)
(* Stop time text: a StopTimeUpdate over a message with or without         *)
(* arrival, departure and tracks, and its str()                            *)
(***************************************************************************)
StopTimeEventMessage(stop, arr, dep, scheduled, actual) ==
    [stop_id |-> stop, arrival |-> arr, departure |-> dep,
     scheduled_track |-> scheduled, actual_track |-> actual]

\* a StopTimeEvent is absent, or has a time 82 or 112 seconds after the feed time
StopTimeEvents == {None, [time |-> FeedTime + 82], [time |-> FeedTime + 112]}

TrackValues == {None} \cup {PyStr(track) : track \in Tracks}

InitStopText ==
    /\ stop_time \in {StopTimeUpdate(StopTimeEventMessage(stop, arr, dep, scheduled, actual)) :
                         stop \in {Stop106N, StopBogus}, arr \in StopTimeEvents,
                         dep \in StopTimeEvents, scheduled \in TrackValues,
                         actual \in TrackValues}
    /\ op = Call("StopTimeUpdate", <<>>)
    /\ ret = None
    /\ feed = None
    /\ feed_url = None
    /\ fetched = <<>>
    /\ held = None
    /\ repeated_field = None
    /\ iterators = <<>>

\* str(stop_time)
StrStopTime ==
    /\ op' = Call("StopTimeUpdate.__str__", <<>>)
    /\ ret' = StopTimeUpdate__str__(stop_time)
    /\ UNCHANGED <<feed, feed_url, fetched, objects>>

NextStopText == StrStopTime

SpecStopText == InitStopText /\ [][NextStopText]_vars

(***************************************************************************)
(* Timestamps: one pending call of parse_timestamp with a timestamp near   *)
(* the feed time, near 30 minutes before and after it, or near 90 minutes  *)
(* after it, with the feed time given or not                               *)
(***************************************************************************)
\* greatest distance in seconds of a timestamp from the feed time or from one of the limits
MaxDelta == 6

TimestampsParsed ==
    {FeedTime + base + delta :
        base \in {0 - timedelta_minutes(30), 0, timedelta_minutes(30), timedelta_minutes(90)},
        delta \in (0 - MaxDelta)..MaxDelta}

InitParse ==
    /\ op \in {Call("parse_timestamp", [timestamp |-> ts, feed_datetime |-> f]) :
                  ts \in TimestampsParsed, f \in {None, PyDatetime(fromtimestamp(FeedTime))}}
    /\ ret = Pending
    /\ feed = None
    /\ feed_url = None
    /\ fetched = <<>>
    /\ held = None
    /\ stop_time = None
    /\ repeated_field = None
    /\ iterators = <<>>

\* parse_timestamp(timestamp, feed_datetime)
ParseTimestamp ==
    /\ op.name = "parse_timestamp"
    /\ ret = Pending
    /\ ret' = PyDatetime(parse_timestamp(op.args.timestamp, op.args.feed_datetime))
    /\ UNCHANGED <<op, feed, feed_url, fetched, objects>>

NextParse == ParseTimestamp

SpecParse == InitParse /\ [][NextParse]_vars

(***************************************************************************)
(* Construction: one pending call NYCTFeed(feed_specifier, api_key,        *)
(* fetch_immediately) with a str feed specifier                            *)
(***************************************************************************)
\* greatest length of a feed specifier drawn from the alphabet
MaxSpecifierLen == 5

SpecifierChars == {"A", "h", ":", "/", "x"}

\* the feed specifiers: the strings over the alphabet, and a feed URL
Specifiers ==
    SeqsUpTo(SpecifierChars, MaxSpecifierLen) \cup {UrlBase \o <<"-", "a", "c", "e">>}

\* what requests.get comes back with: bytes that decode, bytes that do not, or no connection
Unreachable == [t |-> "unreachable"]
Responses ==
    {FeedMessage(FeedTime, <<>>), FeedMessage(FeedTime, <<TripUpdateEntity(Desc1N, <<>>)>>),
     Malformed, Unreachable}

InitConstruct ==
    /\ op \in {Call("__init__", [feed_specifier |-> s, fetch_immediately |-> b]) :
                  s \in Specifiers, b \in BOOLEAN}
    /\ ret = Pending
    /\ feed = None
    /\ feed_url = None
    /\ fetched = <<>>
    /\ held = None
    /\ stop_time = None
    /\ repeated_field = None
    /\ iterators = <<>>

\* NYCTFeed.__init__, with the refresh it ends with when fetch_immediately is true
Construct ==
    /\ op.name = "__init__"
    /\ ret = Pending
    /\ LET url == FeedUrl(op.args.feed_specifier)
       IN IF IsRaise(url)
          THEN ret' = url /\ UNCHANGED <<feed, feed_url, fetched>>
          ELSE /\ feed_url' = url
               /\ IF op.args.fetch_immediately
                  THEN /\ fetched' = Append(fetched, url.s)
                       /\ \E response \in Responses :
                            IF response = Unreachable
                            THEN ret' = Raise("ConnectionError") /\ UNCHANGED feed
                            ELSE IF response = Malformed
                            THEN ret' = Raise("DecodeError") /\ UNCHANGED feed
                            ELSE ret' = None /\ feed' = response
                  ELSE ret' = None /\ UNCHANGED <<feed, fetched>>
    /\ UNCHANGED <<op, objects>>

NextConstruct == Construct

SpecConstruct == InitConstruct /\ [][NextConstruct]_vars

(***************************************************************************)
(* Properties                                                              *)
(***************************************************************************)
\* the call that has just returned is a read of NYCTFeed.trips on a loaded feed
TripsReturned == op.name = "trips" /\ feed # None

\* the entities of the loaded feed that carry the field name
EntitiesWith(name) == {i \in 1..Len(feed.entity) : feed.entity[i].field = name}

\* the trip keys of the entities that carry a trip_update
TripUpdateKeys ==
    {_trip_identifier(feed.entity[i].trip_update.trip) : i \in EntitiesWith("trip_update")}

\* C1 as stated: the number of trips returned by NYCTFeed.trips equals the number of
\* entities of the feed that carry a trip_update.
C1_TripsCountEntities ==
    TripsReturned => ret.t = "list" /\ Len(ret.l) = Cardinality(EntitiesWith("trip_update"))

\* C1 amended: the number of trips returned by NYCTFeed.trips equals the number of distinct
\* trip keys among the entities that carry a trip_update; alert and vehicle entities never
\* add a trip.
C1_TripsCountKeys ==
    TripsReturned => ret.t = "list" /\ Len(ret.l) = Cardinality(TripUpdateKeys)

\* two trip_update entities share a trip key, next to an alert or vehicle entity or not,
\* and trips has returned
C1_Witness ==
    /\ TripsReturned
    /\ Cardinality(EntitiesWith("trip_update")) = 2
    /\ Cardinality(TripUpdateKeys) = 1
    /\ Len(ret.l) = 1

\* the call that has just returned is a read of the property name of a trip of the feed
PropertyReturned(name) == op.name = "trip_property" /\ op.args.name = name

\* the trip that was read
TripRead == trips(feed).l[op.args.n]

\* the trip that was read has a vehicle update stamped at most 60 seconds after the
\* generation time of the feed
StampedUnderway ==
    /\ TripRead._vehicle_update # None
    /\ TripRead._vehicle_update.timestamp <= feed.header.timestamp + 60

\* C2: a trip is underway iff it has a vehicle update whose timestamp is at most 60 seconds
\* after the feed generation time.
C2_Underway == PropertyReturned("underway") => ret = PyBool(StampedUnderway)

\* underway was read on a trip that has a vehicle update stamped 61 seconds after generation
C2_Witness ==
    /\ PropertyReturned("underway")
    /\ TripRead._vehicle_update # None
    /\ TripRead._vehicle_update.timestamp = feed.header.timestamp + 61
    /\ ret = PyBool(FALSE)

\* underway was read on a trip that has a vehicle update stamped exactly 60 seconds after
\* generation
C2_WitnessBoundary ==
    /\ PropertyReturned("underway")
    /\ TripRead._vehicle_update # None
    /\ TripRead._vehicle_update.timestamp = feed.header.timestamp + 60
    /\ ret = PyBool(TRUE)

PositionProperties ==
    {"last_position_update", "location", "location_status", "current_stop_sequence_index"}

\* C3: for a trip that is not underway, last_position_update, location, location_status and
\* current_stop_sequence_index return None, also with a future-dated vehicle update attached;
\* for a trip that is underway they return the data of its vehicle update.
C3_PositionOnlyUnderway ==
    (op.name = "trip_property" /\ op.args.name \in PositionProperties) =>
        IF ~StampedUnderway THEN ret = None
        ELSE /\ ret # None
             /\ PropertyReturned("last_position_update") =>
                    ret = PyDatetime(TripRead._vehicle_update.timestamp + UtcOffset)
             /\ PropertyReturned("location") =>
                    ret = PyStr(TripRead._vehicle_update.stop_id)
             /\ PropertyReturned("location_status") =>
                    ret.t = "str" /\ ret.s \in {"INCOMING_AT", "STOPPED_AT", "IN_TRANSIT_TO"}
             /\ PropertyReturned("current_stop_sequence_index") =>
                    ret = PyInt(TripRead._vehicle_update.current_stop_sequence)

\* location was read on a trip whose vehicle update is future-dated, and None came back
C3_Witness ==
    /\ PropertyReturned("location")
    /\ TripRead._vehicle_update # None
    /\ ~StampedUnderway
    /\ ret = None

\* the trip_id of the trip that was read, and its segments between '_'
TripIdRead == TripRead._trip_update.trip.trip_id
Segments == Split(TripIdRead, <<"_">>)
\* the trip_id that was read has a second segment: the shape id
HasShape == Len(Segments) >= 2
ShapeRead == Segments[2]

\* C4 as stated: for a trip whose shape id contains neither '..' nor '.', direction returns
\* None and raises no exception.
C4_DirectionAbsent ==
    (PropertyReturned("direction") /\ HasShape /\ ~Contains(ShapeRead, <<".">>)) => ret = None

\* the separator the direction is read after: '..' when the shape id contains it, else '.'
Separator(shape) == IF Contains(shape, <<".", ".">>) THEN <<".", ".">> ELSE <<".">>
\* the part of the shape id between the first occurrence of its separator and the next
AfterSeparator(shape) == Split(shape, Separator(shape))[2]
\* the shape id has its separator and a character after it
HasDirection(shape) == Contains(shape, Separator(shape)) /\ Len(AfterSeparator(shape)) > 0

\* C5 as stated: shape_id is the second segment of trip_id split on '_', and direction is
\* the first character after '..' in the shape id when the shape id contains '..', otherwise
\* the first character after '.', whatever the other parts of trip_id are.
C5_ShapeAndDirection ==
    /\ (PropertyReturned("shape_id") /\ HasShape) => ret = PyStr(ShapeRead)
    /\ (PropertyReturned("direction") /\ HasShape /\ HasDirection(ShapeRead)) =>
            ret = PyStr(<<AfterSeparator(ShapeRead)[1]>>)

\* the pending call of filter_trips has returned or raised
FilterReturned == op.name = "filter_trips" /\ ret # Pending

\* the criteria that take a str or a list of str are None, a str or a list
WellTyped(c) ==
    \A n \in {"line_id", "shape_id", "headed_for_stop_id"} : c[n].t \in {"NoneType", "str", "list"}

\* x is the str v or a member of the list v
Matches(x, v) == IF v.t = "str" THEN x = v.s ELSE InList(x, v.l)

\* the direction of a trip as C4 and C5 state it: the character after the separator of the
\* shape id, None when the shape id has no separator
StatedDirection(trip) ==
    LET shape == Split(trip._trip_update.trip.trip_id, <<"_">>)[2]
    IN IF HasDirection(shape) THEN PyStr(<<AfterSeparator(shape)[1]>>) ELSE None

\* the trip has a vehicle update stamped at most 60 seconds after the generation time
StatedUnderway(trip) ==
    /\ trip._vehicle_update # None
    /\ trip._vehicle_update.timestamp <= feed.header.timestamp + 60

\* the trip is underway and its vehicle update is not earlier than the local time after
NotEarlier(trip, after) ==
    /\ StatedUnderway(trip)
    /\ trip._vehicle_update.timestamp + UtcOffset >= after.d

\* the trip satisfies every criterion of c that is supplied
Satisfies(trip, c) ==
    /\ c.line_id # None => Matches(trip._trip_update.trip.route_id, c.line_id)
    /\ c.travel_direction # None => StatedDirection(trip) = c.travel_direction
    /\ c.train_assigned # None => PyBool(trip._trip_update.trip.is_assigned) = c.train_assigned
    /\ c.underway # None => PyBool(StatedUnderway(trip)) = c.underway
    /\ c.shape_id # None =>
            Matches(Split(trip._trip_update.trip.trip_id, <<"_">>)[2], c.shape_id)
    /\ c.headed_for_stop_id # None =>
            \E i \in 1..Len(trip._trip_update.stop_time_update) :
                Matches(trip._trip_update.stop_time_update[i].stop_id, c.headed_for_stop_id)
    /\ c.updated_after # None => NotEarlier(trip, c.updated_after)
    /\ c.has_delay_alert # None => PyBool(trip._applicable_alerts # <<>>) = c.has_delay_alert

\* the trips of NYCTFeed.trips that satisfy c, in the order of NYCTFeed.trips
Satisfying(c) ==
    LET Test(trip) == Satisfies(trip, c)
    IN SelectSeq(trips(feed).l, Test)

\* the criteria of c with all but the criterion n left as None
Only(c, n) == [NoCriteria EXCEPT ![n] = c[n]]

\* the trips of NYCTFeed.trips that every one of the results holds, in the order of NYCTFeed.trips
InAll(results) ==
    LET Test(trip) == \A r \in results : r.t = "list" /\ InList(trip, r.l)
    IN SelectSeq(trips(feed).l, Test)

\* the trips of NYCTFeed.trips that one of the results holds, in the order of NYCTFeed.trips
InSome(results) ==
    LET Test(trip) == \E r \in results : r.t = "list" /\ InList(trip, r.l)
    IN SelectSeq(trips(feed).l, Test)

\* C6 as stated: filter_trips returns exactly the trips of NYCTFeed.trips, in the same order,
\* that satisfy every supplied criterion (None is no constraint), and the result for two
\* criteria is the intersection of the results for each alone.
C6_FilterConjunction ==
    (FilterReturned /\ WellTyped(op.args)) =>
        /\ ret = PyList(Satisfying(op.args))
        /\ LET alone == {filter_trips(feed, Only(op.args, n)) : n \in Supplied(op.args)}
           IN /\ \A r \in alone : r.t = "list"
              /\ ret = PyList(InAll(alone))

\* the results of filtering with each member of the list op.args[n] as a single value
Singles(n) ==
    {filter_trips(feed, [op.args EXCEPT ![n] = PyStr(op.args[n].l[i])]) :
        i \in 1..Len(op.args[n].l)}

\* C7 as stated: for line_id, shape_id and headed_for_stop_id, filtering with a list returns
\* the union of the results of filtering with each member as a single value, the other
\* criteria held equal; a one-element list gives the result of the bare value and an empty
\* list matches no trip.
C7_ListIsUnion ==
    \A n \in {"line_id", "shape_id", "headed_for_stop_id"} :
        (FilterReturned /\ WellTyped(op.args) /\ op.args[n].t = "list") =>
            /\ \A r \in Singles(n) : r.t = "list"
            /\ ret = PyList(InSome(Singles(n)))

\* C8: when updated_after is supplied filter_trips returns no trip that is not underway,
\* whatever the other criteria, and of the trips that pass the other criteria it returns
\* exactly the underway ones whose last position update is not earlier than updated_after.
C8_UpdatedAfter ==
    (FilterReturned /\ op.args.updated_after # None /\ ret.t = "list") =>
        LET others == filter_trips(feed, [op.args EXCEPT !.updated_after = None])
            Test(trip) == NotEarlier(trip, op.args.updated_after)
        IN /\ \A i \in 1..Len(ret.l) : NotEarlier(ret.l[i], op.args.updated_after)
           /\ others.t = "list"
           /\ ret.l = SelectSeq(others.l, Test)

\* filter_trips with updated_after has left out a trip that is not underway although its
\* future-dated vehicle update is later than updated_after
C8_Witness ==
    /\ FilterReturned
    /\ op.args.updated_after # None
    /\ ret = PyList(<<>>)
    /\ \E i \in 1..Len(trips(feed).l) :
          /\ trips(feed).l[i]._vehicle_update # None
          /\ ~StatedUnderway(trips(feed).l[i])
          /\ trips(feed).l[i]._vehicle_update.timestamp + UtcOffset > op.args.updated_after.d

\* filter_trips has returned a trip whose vehicle update is stamped exactly at updated_after
C8_WitnessEquality ==
    /\ FilterReturned
    /\ op.args.updated_after # None
    /\ ret.t = "list"
    /\ \E i \in 1..Len(ret.l) :
          ret.l[i]._vehicle_update.timestamp + UtcOffset = op.args.updated_after.d

\* an error that reports an invalid argument
InvalidArgument == {Raise("TypeError"), Raise("ValueError")}

\* C9 as stated: filter_trips with a headed_for_stop_id that is neither a str nor a list
\* fails with an invalid-argument error instead of returning a list of trips.
C9_IllTypedStopRaises ==
    (FilterReturned /\ op.args.headed_for_stop_id.t = "int") => ret \in InvalidArgument

\* C10 as stated: filter_trips with a line_id or shape_id that is neither a str nor a list
\* fails with an invalid-argument error for every feed and every combination of the other
\* criteria; it never returns a list.
C10_IllTypedRaises ==
    (FilterReturned /\ (op.args.line_id.t = "int" \/ op.args.shape_id.t = "int")) =>
        ret \in InvalidArgument

\* the call that has just returned is a read of the property name of the StopTimeUpdate
StopTimeRead(name) == op.name = "stop_time_property" /\ op.args.name = name

\* both track fields of the message m are set
BothTracks(m) == m.scheduled_track # None /\ m.actual_track # None

\* C11: unexpected_track_arrival is False whenever scheduled_track or actual_track is absent
\* and is (scheduled_track != actual_track) when both are present; clearing either track
\* after both were set to differing values makes the flag False again.
C11_UnexpectedTrack ==
    /\ [](StopTimeRead("unexpected_track_arrival") =>
            LET m == stop_time._stop_time_update
            IN ret = PyBool(BothTracks(m) /\ m.scheduled_track.s # m.actual_track.s))
    /\ [][(/\ BothTracks(stop_time._stop_time_update)
           /\ stop_time._stop_time_update.scheduled_track.s
                 # stop_time._stop_time_update.actual_track.s
           /\ op'.name = "ClearField")
          => GetStopTime(stop_time', "unexpected_track_arrival") = PyBool(FALSE)]_vars

\* the flag was read as False on a message that has a scheduled track and no actual track
C11_Witness ==
    /\ StopTimeRead("unexpected_track_arrival")
    /\ stop_time._stop_time_update.scheduled_track # None
    /\ stop_time._stop_time_update.actual_track = None
    /\ ret = PyBool(FALSE)

\* the flag was read as True on a message whose two tracks differ
C11_WitnessMismatch ==
    /\ StopTimeRead("unexpected_track_arrival")
    /\ BothTracks(stop_time._stop_time_update)
    /\ ret = PyBool(TRUE)

\* a track was cleared from a message, which is left with one track
C11_WitnessCleared ==
    /\ op.name = "ClearField"
    /\ stop_time._stop_time_update[op.args.name] = None
    /\ \E name \in TrackFields : stop_time._stop_time_update[name] # None

\* the stop ids of the remaining stop-time updates of the trip that was asked
RemainingStops ==
    {TripRead._trip_update.stop_time_update[i].stop_id :
        i \in 1..Len(TripRead._trip_update.stop_time_update)}

\* C12: headed_to_stop(stop_id) is True iff stop_id is equal to the stop_id of one of the
\* remaining stop-time updates of the trip; a part of such a stop id ("106" for "106N") or
\* the opposite direction ("106S") gives False.
C12_HeadedToStop ==
    op.name = "headed_to_stop" => ret = PyBool(op.args.stop_id \in RemainingStops)

\* headed_to_stop("106") was asked of a trip that has "106N" among its remaining stops
C12_Witness ==
    /\ op.name = "headed_to_stop"
    /\ op.args.stop_id = Stop106
    /\ Stop106N \in RemainingStops
    /\ ret = PyBool(FALSE)

\* headed_to_stop("106N") was asked of a trip that has "106N" among its remaining stops
C12_WitnessExact ==
    /\ op.name = "headed_to_stop"
    /\ op.args.stop_id = Stop106N
    /\ Stop106N \in RemainingStops
    /\ ret = PyBool(TRUE)

\* the stop ids of the stop-time updates of the trip that was read, in order
StopsRead ==
    [i \in 1..Len(TripRead._trip_update.stop_time_update) |->
        TripRead._trip_update.stop_time_update[i].stop_id]

\* the headsign of the shape id in trips.txt and the name of the stop id in stops.txt
InTrips(shape) == \E i \in 1..Len(_trip_shapes) : _trip_shapes[i].k = shape
HeadsignOf(shape) ==
    _trip_shapes[CHOOSE i \in 1..Len(_trip_shapes) : _trip_shapes[i].k = shape].v.trip_headsign
InStops(stop) == \E i \in 1..Len(_stops) : _stops[i].k = stop
NameOf(stop) == _stops[CHOOSE i \in 1..Len(_stops) : _stops[i].k = stop].v.stop_name

\* C13: headsign_text returns the headsign of the shape table when shape_id is in the table;
\* on a miss it returns the station name of the last stop-time update when the trip has a
\* stop-time update and that name is found, otherwise None; it never raises for a miss.
C13_HeadsignText ==
    (PropertyReturned("headsign_text") /\ HasShape) =>
        IF InTrips(ShapeRead) THEN ret = HeadsignOf(ShapeRead)
        ELSE IF Len(StopsRead) > 0 /\ InStops(StopsRead[Len(StopsRead)])
             THEN ret = NameOf(StopsRead[Len(StopsRead)])
             ELSE ret = None

\* headsign_text was read on a trip whose shape id is not in trips.txt and whose last stop is
\* in stops.txt, after a stop that is not
C13_Witness ==
    /\ PropertyReturned("headsign_text")
    /\ HasShape
    /\ ~InTrips(ShapeRead)
    /\ Len(StopsRead) = 2
    /\ ~InStops(StopsRead[1])
    /\ InStops(StopsRead[2])
    /\ ret = NameOf(StopsRead[2])

\* headsign_text was read on a trip whose shape id and last stop are in neither table
C13_WitnessAbsent ==
    /\ PropertyReturned("headsign_text")
    /\ HasShape
    /\ ~InTrips(ShapeRead)
    /\ Len(StopsRead) > 0
    /\ ~InStops(StopsRead[Len(StopsRead)])
    /\ ret = None

\* C14 as stated: a miss in the static tables is never raised to the caller of an accessor or
\* of str(): stop_name gives None, headsign_text gives a value, and str() of an underway trip
\* whose location is not in stops.txt returns text.
C14_MissIsSilent ==
    /\ op.name = "stop_name" => ~IsRaise(ret)
    /\ (op.name = "stop_name" /\ ~InStops(StopsRead[op.args.k])) => ret = None
    /\ (PropertyReturned("headsign_text") /\ HasShape) => ~IsRaise(ret)
    /\ (/\ op.name = "__str__"
        /\ StampedUnderway
        /\ ~IsRaise(direction(TripRead))
        /\ ~IsRaise(departure_time(TripRead))) => ret.t = "str"

\* C15: for every underway trip, last_position_update is the correction rule applied to the
\* raw vehicle timestamp with the feed generation time as reference: raw minus 60 minutes if
\* raw is more than 30 minutes after the generation time, otherwise raw.
C15_CorrectionRule ==
    (PropertyReturned("last_position_update") /\ StampedUnderway) =>
        ret = PyDatetime(parse_timestamp(TripRead._vehicle_update.timestamp,
                                         PyDatetime(fromtimestamp(feed.header.timestamp))))

\* last_position_update was read on an underway trip whose vehicle update is stamped after
\* the generation time of the feed
C15_Witness ==
    /\ PropertyReturned("last_position_update")
    /\ StampedUnderway
    /\ TripRead._vehicle_update.timestamp > feed.header.timestamp
    /\ ret = PyDatetime(fromtimestamp(TripRead._vehicle_update.timestamp))

\* the trip_update, vehicle and alert messages of the entities of the feed f
TripUpdatesOf(f) ==
    {f.entity[i].trip_update : i \in {j \in 1..Len(f.entity) : f.entity[j].field = "trip_update"}}
VehiclesOf(f) ==
    {f.entity[i].vehicle : i \in {j \in 1..Len(f.entity) : f.entity[j].field = "vehicle"}}
AlertsOf(f) ==
    {f.entity[i].alert : i \in {j \in 1..Len(f.entity) : f.entity[j].field = "alert"}}

\* the trip is made of messages of the feed f and of its generation time only
MadeOf(trip, f) ==
    /\ trip._trip_update \in TripUpdatesOf(f)
    /\ trip._vehicle_update # None => trip._vehicle_update \in VehiclesOf(f)
    /\ \A i \in 1..Len(trip._applicable_alerts) : trip._applicable_alerts[i] \in AlertsOf(f)
    /\ trip._feed_datetime = f.header.timestamp + UtcOffset

\* a load has just returned without raising
Loaded == op.name = "load_gtfs_bytes" /\ ret = None

\* C16: after any sequence of loads the feed object holds the decode of the bytes of the most
\* recent load that succeeded and nothing else: the generation time, the trips and the
\* filter_trips results are made of that feed alone, with no trip, vehicle update or alert of
\* an earlier load.
C16_FreshView ==
    /\ [][feed' = IF op'.name = "load_gtfs_bytes" /\ ret' = None
                  THEN op'.args.gtfs_bytes ELSE feed]_vars
    /\ [](Loaded => feed = op.args.gtfs_bytes)
    /\ []((op.name \in {"trips", "filter_trips"} /\ feed # None) =>
            /\ ret.t = "list"
            /\ \A i \in 1..Len(ret.l) : MadeOf(ret.l[i], feed))
    /\ []((op.name = "trips" /\ feed # None) =>
            Len(ret.l) = Cardinality({_trip_identifier(u.trip) : u \in TripUpdatesOf(feed)}))
    /\ []((op.name = "last_generated" /\ feed # None) =>
            ret = PyDatetime(feed.header.timestamp + UtcOffset))

\* trips was read after a load that replaced the feed from which the caller's kept trip came:
\* the trips returned do not include that trip, whose trip_update is not in the feed
C16_Witness ==
    /\ op.name = "trips"
    /\ feed # None
    /\ held # None
    /\ held._trip_update \notin TripUpdatesOf(feed)
    /\ ret.t = "list"
    /\ Len(ret.l) > 0

\* the calls that query the feed object or a trip
Queries == {"trips", "last_generated", "filter_trips", "held_property"}

\* C17: a query never changes the loaded feed nor a trip that the caller keeps, a query
\* repeated with no load in between returns the same result, and a trip obtained before a
\* later load keeps returning, for every accessor, the values of the messages it was made of.
C17_ReadOnly ==
    /\ [][op'.name \in Queries => (feed' = feed /\ held' = held)]_vars
    /\ [][(op.name \in Queries /\ op' = op) => ret' = ret]_vars
    /\ [][op'.name = "load_gtfs_bytes" => held' = held]_vars
    /\ [](op.name = "held_property" =>
            /\ op.args.name = "trip_id" => ret = PyStr(held._trip_update.trip.trip_id)
            /\ op.args.name = "route_id" => ret = PyStr(held._trip_update.trip.route_id)
            /\ op.args.name = "train_assigned" => ret = PyBool(held._trip_update.trip.is_assigned)
            /\ op.args.name = "has_delay_alert" => ret = PyBool(held._applicable_alerts # <<>>)
            /\ op.args.name = "underway" =>
                 ret = PyBool(/\ held._vehicle_update # None
                              /\ held._vehicle_update.timestamp + UtcOffset
                                    <= held._feed_datetime + 60)
            /\ op.args.name = "location" =>
                 (ret = None \/ ret = PyStr(held._vehicle_update.stop_id)))

\* a property of the kept trip was read after a load put a feed in place that does not have
\* the trip's trip_update and has another generation time
C17_Witness ==
    /\ op.name = "held_property"
    /\ op.args.name = "underway"
    /\ feed # None
    /\ held._trip_update \notin TripUpdatesOf(feed)
    /\ held._feed_datetime # feed.header.timestamp + UtcOffset
    /\ ret = PyBool(TRUE)

\* the constructor has returned or raised
Constructed == op.name = "__init__" /\ ret # Pending

\* the feed specifier is a key of the table of line identifiers
KnownLine(s) == \E i \in 1..Len(_train_to_url) : _train_to_url[i].k = s
UrlOfLine(s) == _train_to_url[CHOOSE i \in 1..Len(_train_to_url) : _train_to_url[i].k = s].v

\* the feed specifier is a URL with a scheme and a host: a non-empty run of scheme characters,
\* then '://', then a character that does not end the host
HasSchemeAndHost(s) ==
    \E i \in 2..Len(s) :
        /\ s[i] = ":"
        /\ \A j \in 1..(i - 1) : s[j] \in scheme_chars
        /\ Len(s) >= i + 3
        /\ s[i + 1] = "/"
        /\ s[i + 2] = "/"
        /\ s[i + 3] \notin {"/", "?", "#"}

\* C18: constructing NYCTFeed with a feed specifier that is neither a known line identifier
\* nor a URL with a scheme and a host raises ValueError before any fetch, also with
\* fetch_immediately; a known line identifier selects its mapped URL and a valid URL is kept
\* verbatim.
C18_Constructor ==
    Constructed =>
        LET s == op.args.feed_specifier
        IN /\ (~KnownLine(s) /\ ~HasSchemeAndHost(s)) =>
                 (ret = Raise("ValueError") /\ fetched = <<>> /\ feed = None)
           /\ (KnownLine(s) \/ HasSchemeAndHost(s)) =>
                 /\ ret # Raise("ValueError")
                 /\ feed_url = PyStr(IF KnownLine(s) THEN UrlOfLine(s) ELSE s)
                 /\ fetched = IF op.args.fetch_immediately THEN <<feed_url.s>> ELSE <<>>

\* the constructor was called with fetch_immediately and a specifier that has a scheme and no
\* host, and raised ValueError with nothing fetched
C18_Witness ==
    /\ Constructed
    /\ op.args.fetch_immediately
    /\ op.args.feed_specifier = <<"h", ":", "/", "/">>
    /\ ret = Raise("ValueError")
    /\ fetched = <<>>

\* the constructor was called with the line identifier "A" and fetched from its mapped URL
C18_WitnessLine ==
    /\ Constructed
    /\ op.args.feed_specifier = <<"A">>
    /\ ret = None
    /\ fetched = <<UrlBase \o <<"-", "a", "c", "e">>>>

\* the constructor was called with the URL "h://x" and kept it
C18_WitnessUrl ==
    /\ Constructed
    /\ op.args.feed_specifier = <<"h", ":", "/", "/", "x">>
    /\ feed_url = PyStr(<<"h", ":", "/", "/", "x">>)

\* the element of the repeated field at an index of its range, as indexing hands it out
ElementAt(self, index) ==
    IF self._attr_type = "MESSAGE" THEN ProxyMessage(self._message_ptr[index + 1], FALSE)
    ELSE self._message_ptr[index + 1]

\* the elements of the repeated field at the indices 0..length-1, in order
ElementsOf(self) == [i \in 1..self._len |-> ElementAt(self, i - 1)]

InRange(self, index) == index >= 0 /\ index < self._len

\* C19: RepeatedField indexing raises IndexError for every index outside [0, length), negative
\* indices included, and returns the element for every index inside; an access out of range
\* returns no value and does not write to the per-index cache.
C19_IndexOutOfRange ==
    [][op'.name = "__getitem__" =>
          LET index == op'.args.index
          IN /\ ~InRange(repeated_field, index) =>
                   (ret' = Raise("IndexError") /\ repeated_field' = repeated_field)
             /\ InRange(repeated_field, index) => ret' = ElementAt(repeated_field, index)]_vars

\* C19, the part that holds: an index inside the range gives the element, an index at or past
\* the length or before minus the length raises IndexError, and no access out of range
\* changes the cache
C19_HoldsOutsideWrap ==
    [][op'.name = "__getitem__" =>
          LET index == op'.args.index
          IN /\ InRange(repeated_field, index) => ret' = ElementAt(repeated_field, index)
             /\ (index >= repeated_field._len \/ index < 0 - repeated_field._len) =>
                   ret' = Raise("IndexError")
             /\ ~InRange(repeated_field, index) => repeated_field' = repeated_field]_vars

\* C19: the last element was read and cached, and the index -1 has returned it
C19_NegativeIndexReturns ==
    /\ op = Call("__getitem__", [index |-> 0 - 1])
    /\ repeated_field # None
    /\ repeated_field._len = 2
    /\ ret = ElementAt(repeated_field, 1)

\* C20: iterating a RepeatedField yields exactly its elements at the indices 0..length-1 in
\* order and then stops: in every state, also with iterations abandoned or in progress, a new
\* iteration draws exactly these elements; __iter__ makes an iterator at index 0 and leaves
\* the others alone; and __next__ on an iterator that has yielded k elements gives the element
\* at index k, or stops when k is the length, and leaves the other iterators alone.
C20_Restartable ==
    /\ [](repeated_field # None =>
             Collect(RepeatedFieldIterator, repeated_field, MaxLen + 1)
                 = ElementsOf(repeated_field))
    /\ [][op'.name = "__iter__" =>
              /\ Len(iterators') = Len(iterators) + 1
              /\ iterators'[Len(iterators')].idx = 0
              /\ \A j \in 1..Len(iterators) : iterators'[j] = iterators[j]]_vars
    /\ [][op'.name = "__next__" =>
              LET i == op'.args.it
                  k == iterators[i].idx
              IN /\ ret' = IF k < repeated_field._len THEN ElementsOf(repeated_field)[k + 1]
                           ELSE Raise("StopIteration")
                 /\ \A j \in 1..Len(iterators) : j # i => iterators'[j] = iterators[j]]_vars

\* a second iteration has yielded the element at index 0 while the first one, part-way through
\* a field of two elements, is still in progress
C20_Witness ==
    /\ Len(iterators) = 2
    /\ repeated_field._len = 2
    /\ iterators[1].idx = 1
    /\ iterators[2].idx = 1
    /\ op = Call("__next__", [it |-> 2])
    /\ ret = ElementAt(repeated_field, 0)

\* an iteration of a field of two elements has stopped after the second element
C20_WitnessStopped ==
    /\ Len(iterators) >= 1
    /\ repeated_field._len = 2
    /\ op.name = "__next__"
    /\ ret = Raise("StopIteration")

\* C21: bracket-style extension lookup on a ProxyMessage succeeds only on a view marked as an
\* extension root, and a view becomes one only through .Extensions; on an ordinary view,
\* a nested message returned from an extension root included, it raises ValueError whatever
\* the caches hold and leaves them as they are.
C21_ExtensionRootOnly ==
    /\ [][op'.name = "ProxyMessage.__getitem__" =>
              /\ ~IsRaise(ret') => held._is_ext
              /\ ~held._is_ext => (ret' = Raise("ValueError") /\ held' = held)
              /\ ret'.t = "ProxyMessage" => ~ret'._is_ext]_vars
    /\ [][(held'._is_ext /\ ~held._is_ext) => (op.name = "Extensions" /\ op'.name = "follow")]_vars
    /\ [][op'.name \in {"__getattr__", "__getitem__"} /\ ret'.t = "ProxyMessage" =>
              ~ret'._is_ext]_vars

\* the nested message that an extension root returned for the NYCT extension has been read,
\* so that its cache has an entry, and the bracket lookup on it has raised ValueError
C21_Witness ==
    /\ op = Call("ProxyMessage.__getitem__", [ext |-> nyct_extension])
    /\ ret = Raise("ValueError")
    /\ held._message_ptr = NyctTripDescriptorMessage
    /\ held._cached_attrs # <<>>
    /\ held._cached_exts = <<>>

\* the bracket lookup on the extension root of the trip descriptor has returned the nested message
C21_WitnessRoot ==
    /\ op = Call("ProxyMessage.__getitem__", [ext |-> nyct_extension])
    /\ held._is_ext
    /\ held._message_ptr = TripDescriptorMessage
    /\ ret = ProxyMessage(NyctTripDescriptorMessage, FALSE)

\* what a view with empty caches over the same message returns for a field or an extension
UncachedAttr(self, name) ==
    ProxyMessage__getattr__(ProxyMessage(self._message_ptr, self._is_ext), name).ret
UncachedExt(self, ext) ==
    ProxyMessage__getitem__(ProxyMessage(self._message_ptr, self._is_ext), ext).ret

\* what a repeated field with an empty cache over the same elements returns for an index
UncachedItem(self, index) ==
    RepeatedField__getitem__(RepeatedField(self._message_ptr, self._attr_type), index).ret

\* every entry of the caches of the view and of the repeated field is what an uncached decode
\* returns, and no entry is an error
CachesAgree ==
    /\ held # None =>
          /\ \A i \in 1..Len(held._cached_attrs) :
                 /\ held._cached_attrs[i].v = UncachedAttr(held, held._cached_attrs[i].k)
                 /\ ~IsRaise(held._cached_attrs[i].v)
          /\ \A i \in 1..Len(held._cached_exts) :
                 /\ held._cached_exts[i].v
                        = UncachedExt(held, [number |-> held._cached_exts[i].k])
                 /\ ~IsRaise(held._cached_exts[i].v)
    /\ repeated_field # None =>
          \A i \in 1..Len(repeated_field._cached_items) :
              repeated_field._cached_items[i] # None =>
                  repeated_field._cached_items[i] = UncachedItem(repeated_field, i - 1)

\* a field or extension access returns what the uncached decode returns, and one that raises
\* AttributeError or TypeError leaves no entry for the field
AccessesAgree ==
    /\ [][op'.name = "__getattr__" =>
              /\ ret' = UncachedAttr(held, op'.args.name)
              /\ ret' \in {Raise("AttributeError"), Raise("TypeError")} =>
                     ~DictHas(held'._cached_attrs, op'.args.name)]_vars
    /\ [][op'.name = "ProxyMessage.__getitem__" =>
              /\ ret' = UncachedExt(held, op'.args.ext)
              /\ ret' \in {Raise("AttributeError"), Raise("TypeError")} =>
                     ~DictHas(held'._cached_exts, op'.args.ext.number)]_vars

\* C22: memoization on a ProxyMessage and a RepeatedField is correctness-neutral: every cached
\* entry is what an uncached decode of that field or element returns, every access returns
\* what the uncached access returns, and a lookup that raises AttributeError or TypeError
\* leaves the cache without an entry for that field.
C22_MemoizationNeutral ==
    /\ []CachesAgree
    /\ AccessesAgree
    /\ [][op'.name = "__getitem__" => ret' = UncachedItem(repeated_field, op'.args.index)]_vars

\* C22, the part that holds: the same with the index accesses at indices from 0 on
C22_HoldsFromZero ==
    /\ []CachesAgree
    /\ AccessesAgree
    /\ [][op'.name = "__getitem__" /\ op'.args.index >= 0 =>
              ret' = UncachedItem(repeated_field, op'.args.index)]_vars

\* C22: the index -1 has returned the cached last stop time of the trip update, for which an
\* uncached repeated field raises IndexError
C22_CachedNegativeIndex ==
    /\ op = Call("__getitem__", [index |-> 0 - 1])
    /\ repeated_field # None
    /\ ret = ProxyMessage(StopTimeUpdateMessage(Stop101N), FALSE)
    /\ UncachedItem(repeated_field, 0 - 1) = Raise("IndexError")

\* C22: a lookup of an unknown field and one of a field of an unsupported type have raised
\* and the view has entries for other fields
C22_FailedLookups ==
    /\ op.name = "__getattr__"
    /\ op.args.name \in {"bogus", "opaque"}
    /\ ret \in {Raise("AttributeError"), Raise("TypeError")}
    /\ held._cached_attrs # <<>>

\* the trip key of a trip descriptor: the trip id, a space, and the last 7 characters of the
\* train id
TripKey(trip) ==
    trip.trip_id \o <<" ">>
        \o SubSeq(trip.train_id, IF Len(trip.train_id) > 7 THEN Len(trip.train_id) - 6 ELSE 1,
                  Len(trip.train_id))

\* the positions in the feed of the progress updates, position updates and alerts of a trip key
ProgressAt(key) ==
    {i \in EntitiesWith("trip_update") : TripKey(feed.entity[i].trip_update.trip) = key}
PositionAt(key) ==
    {i \in EntitiesWith("vehicle") : TripKey(feed.entity[i].vehicle.trip) = key}
AlertAt(key) ==
    {i \in EntitiesWith("alert") :
        \E j \in 1..Len(feed.entity[i].alert.informed_entity) :
            TripKey(feed.entity[i].alert.informed_entity[j].trip) = key}

\* the trip keys of the progress updates of the feed
ProgressKeys == {TripKey(feed.entity[i].trip_update.trip) : i \in EntitiesWith("trip_update")}

\* C23: each trip of NYCTFeed.trips carries a position update of the feed whose trip key is
\* the key of the trip's progress update, and none exactly when no position entity has that
\* key; position updates and alerts whose key matches no progress update are dropped without
\* error: trips returns a list with one trip for each key of a progress update.
C23_Correlation ==
    TripsReturned =>
        /\ ret.t = "list"
        /\ {TripKey(ret.l[n]._trip_update.trip) : n \in 1..Len(ret.l)} = ProgressKeys
        /\ Len(ret.l) = Cardinality(ProgressKeys)
        /\ \A n \in 1..Len(ret.l) :
               LET key == TripKey(ret.l[n]._trip_update.trip)
               IN IF PositionAt(key) = {} THEN ret.l[n]._vehicle_update = None
                  ELSE \E i \in PositionAt(key) : ret.l[n]._vehicle_update = feed.entity[i].vehicle

\* trips has returned one trip with a position update whose train id differs from that of the
\* progress update before its last 7 characters, and has dropped a position update of the
\* same trip id under another key
C23_Witness ==
    /\ TripsReturned
    /\ Len(ret.l) = 1
    /\ ret.l[1]._trip_update.trip = Desc1N
    /\ ret.l[1]._vehicle_update # None
    /\ ret.l[1]._vehicle_update.trip = Desc1Nb
    /\ \E i \in EntitiesWith("vehicle") : feed.entity[i].vehicle.trip = Desc1Nx

\* trips has returned a trip without position update and without alerts from a feed that has
\* a position update and an alert of other keys
C23_WitnessDropped ==
    /\ TripsReturned
    /\ Len(ret.l) = 1
    /\ ret.l[1]._vehicle_update = None
    /\ ret.l[1]._applicable_alerts = <<>>
    /\ EntitiesWith("vehicle") # {}
    /\ EntitiesWith("alert") # {}

\* the alerts of the alert entities that mention a trip key, once each, in the order of the
\* entities in the feed
AlertsInOrder(key) ==
    LET at == AlertAt(key)
        nth(k) == CHOOSE i \in at : Cardinality({j \in at : j < i}) = k - 1
    IN [k \in 1..Cardinality(at) |-> feed.entity[nth(k)].alert]

\* an alert entity of the feed has two informed entities of one trip key
RepeatedMention ==
    \E i \in EntitiesWith("alert") :
        \E j, k \in 1..Len(feed.entity[i].alert.informed_entity) :
            /\ j # k
            /\ TripKey(feed.entity[i].alert.informed_entity[j].trip)
                   = TripKey(feed.entity[i].alert.informed_entity[k].trip)

\* C24: an alert is in the alert list of a trip exactly once when it mentions the trip's key,
\* also when its informed entities name that trip more than once, and each trip's alert list
\* holds its alerts in the order of the alert entities in the feed.
C24_AlertOncePerKey ==
    TripsReturned =>
        \A n \in 1..Len(ret.l) :
            ret.l[n]._applicable_alerts = AlertsInOrder(TripKey(ret.l[n]._trip_update.trip))

\* C24, the part that holds: the same for feeds in which no alert names a trip key twice
C24_HoldsWithoutRepeatedMention ==
    (TripsReturned /\ ~RepeatedMention) =>
        \A n \in 1..Len(ret.l) :
            ret.l[n]._applicable_alerts = AlertsInOrder(TripKey(ret.l[n]._trip_update.trip))

\* C24: trips has returned a trip whose alert list holds the one alert of the feed twice
C24_AlertTwice ==
    /\ TripsReturned
    /\ Cardinality(EntitiesWith("alert")) = 1
    /\ \E n \in 1..Len(ret.l) :
           /\ Len(ret.l[n]._applicable_alerts) = 2
           /\ ret.l[n]._applicable_alerts[1] = ret.l[n]._applicable_alerts[2]

\* the greatest element of a non-empty set of positions
Latest(at) == CHOOSE i \in at : \A j \in at : j <= i

\* C25: when several progress updates, or several position updates, of one feed have the same
\* trip key, exactly one trip exists for that key and it carries the progress update and the
\* position update that occur last in the feed.
C25_LastWriteWins ==
    TripsReturned =>
        /\ \A m, n \in 1..Len(ret.l) :
               TripKey(ret.l[m]._trip_update.trip) = TripKey(ret.l[n]._trip_update.trip) => m = n
        /\ \A key \in ProgressKeys :
               \E n \in 1..Len(ret.l) :
                   /\ ret.l[n]._trip_update = feed.entity[Latest(ProgressAt(key))].trip_update
                   /\ PositionAt(key) # {} =>
                          ret.l[n]._vehicle_update = feed.entity[Latest(PositionAt(key))].vehicle

\* a progress update and then two position updates of its key that differ in their train ids
\* were in the feed, and trips has returned the one trip with the later position update
C25_WitnessPosition ==
    /\ TripsReturned
    /\ Len(feed.entity) = 3
    /\ feed.entity[1].field = "trip_update" /\ feed.entity[1].trip_update.trip = Desc1N
    /\ feed.entity[2].field = "vehicle" /\ feed.entity[2].vehicle.trip = Desc1N
    /\ feed.entity[3].field = "vehicle" /\ feed.entity[3].vehicle.trip = Desc1Nb
    /\ Len(ret.l) = 1
    /\ ret.l[1]._vehicle_update.trip = Desc1Nb

\* two progress updates of one key were in the feed and trips has returned one trip, made of
\* the later one
C25_Witness ==
    /\ TripsReturned
    /\ Len(feed.entity) = 2
    /\ feed.entity[1].field = "trip_update" /\ feed.entity[1].trip_update.trip = Desc1N
    /\ feed.entity[2].field = "trip_update" /\ feed.entity[2].trip_update.trip = Desc1Nb
    /\ Len(ret.l) = 1
    /\ ret.l[1]._trip_update.trip = Desc1Nb

\* the least element of a non-empty set of positions
Earliest(at) == CHOOSE i \in at : \A j \in at : i <= j

\* the position in the feed of the progress update that the n-th trip returned carries: the
\* last one of its key
CarriedAt(n) == Latest(ProgressAt(TripKey(ret.l[n]._trip_update.trip)))

\* the position in the feed of the first progress update of the key of the n-th trip returned
FirstAt(n) == Earliest(ProgressAt(TripKey(ret.l[n]._trip_update.trip)))

\* C26 as stated: the trips of NYCTFeed.trips are in the order in which their progress
\* updates occur in the feed, also when a progress update has overwritten an earlier one of
\* its key: if the progress update of trip A precedes that of trip B in the feed, A precedes
\* B in the output.
C26_OrderOfCarried ==
    TripsReturned =>
        \A m, n \in 1..Len(ret.l) : CarriedAt(m) < CarriedAt(n) => m < n

\* C26 amended: the trips of NYCTFeed.trips are in the order in which their trip keys first
\* occur among the progress updates of the feed; a progress update that overwrites an
\* earlier one of its key takes the place of the earlier one.
C26_OrderOfFirst ==
    TripsReturned =>
        \A m, n \in 1..Len(ret.l) : FirstAt(m) < FirstAt(n) => m < n

\* the progress updates Desc1N, DescAS, Desc1Nb were in the feed in this order, the third
\* with the key of the first, and trips has returned the trip of Desc1Nb before that of DescAS
C26_Witness ==
    /\ TripsReturned
    /\ Len(feed.entity) = 3
    /\ feed.entity[1].field = "trip_update" /\ feed.entity[1].trip_update.trip = Desc1N
    /\ feed.entity[2].field = "trip_update" /\ feed.entity[2].trip_update.trip = DescAS
    /\ feed.entity[3].field = "trip_update" /\ feed.entity[3].trip_update.trip = Desc1Nb
    /\ Len(ret.l) = 2
    /\ ret.l[1]._trip_update.trip = Desc1Nb
    /\ ret.l[2]._trip_update.trip = DescAS

\* no two progress updates and no two position updates of the feed have the same trip key
NoCollision ==
    /\ \A i, j \in EntitiesWith("trip_update") :
           TripKey(feed.entity[i].trip_update.trip) = TripKey(feed.entity[j].trip_update.trip)
               => i = j
    /\ \A i, j \in EntitiesWith("vehicle") :
           TripKey(feed.entity[i].vehicle.trip) = TripKey(feed.entity[j].vehicle.trip) => i = j

\* the orders in which the entities of the feed can be put while the progress updates keep
\* their order among themselves and the alerts theirs: p[k] is the entity put at place k
Reorderings ==
    {p \in [1..Len(feed.entity) -> 1..Len(feed.entity)] :
        /\ \A a, b \in 1..Len(feed.entity) : p[a] = p[b] => a = b
        /\ \A a, b \in 1..Len(feed.entity) :
               (/\ a < b
                /\ feed.entity[p[a]].field = feed.entity[p[b]].field
                /\ feed.entity[p[a]].field \in {"trip_update", "alert"}) => p[a] < p[b]}

Reordered(p) ==
    FeedMessage(feed.header.timestamp, [k \in 1..Len(feed.entity) |-> feed.entity[p[k]]])

\* C27: for a feed without trip-key collisions, the trips do not depend on where the position
\* and alert entities stand relative to the progress updates: every reordering of the
\* entities that keeps the order of the progress updates and the order of the alerts yields
\* the same trips.
C27_OrderIndependent ==
    (TripsReturned /\ NoCollision) => \A p \in Reorderings : trips(Reordered(p)) = ret

\* trips has returned a trip with its position update and its alert from a feed in which both
\* stand before the progress update, and the feed has other orders
C27_Witness ==
    /\ TripsReturned
    /\ NoCollision
    /\ Len(feed.entity) = 3
    /\ feed.entity[1].field = "vehicle"
    /\ feed.entity[2].field = "alert"
    /\ feed.entity[3].field = "trip_update"
    /\ Len(ret.l) = 1
    /\ ret.l[1]._vehicle_update # None
    /\ ret.l[1]._applicable_alerts # <<>>
    /\ Cardinality(Reorderings) > 1

\* the load that has just returned raised
LoadFailed == op.name = "load_gtfs_bytes" /\ IsRaise(ret)

\* C28: a load_gtfs_bytes that fails because the bytes do not parse leaves the feed object as
\* it was before the call, and the trips, filter_trips and last_generated read after it
\* return what they return on the feed that was in place before the call.
C28_FailedLoadKeepsFeed ==
    /\ [][(op'.name = "load_gtfs_bytes" /\ op'.args.gtfs_bytes = Malformed) =>
              (ret' = Raise("DecodeError") /\ feed' = feed /\ feed_url' = feed_url)]_vars
    /\ [][(op'.name = "load_gtfs_bytes" /\ IsRaise(ret')) =>
              (feed' = feed /\ feed_url' = feed_url /\ fetched' = fetched)]_vars
    /\ [][(LoadFailed /\ feed # None /\ op'.name = "trips") =>
              (ret' = trips(feed) /\ \A i \in 1..Len(ret'.l) : MadeOf(ret'.l[i], feed))]_vars
    /\ [][(LoadFailed /\ feed # None /\ op'.name = "filter_trips") =>
              (ret' = filter_trips(feed, op'.args)
               /\ \A i \in 1..Len(ret'.l) : MadeOf(ret'.l[i], feed))]_vars
    /\ [][(LoadFailed /\ feed # None /\ op'.name = "last_generated") =>
              ret' = PyDatetime(feed.header.timestamp + UtcOffset)]_vars

\* a load of bytes that do not parse has raised while a feed with a trip was in place
C28_Witness ==
    /\ LoadFailed
    /\ op.args.gtfs_bytes = Malformed
    /\ feed # None
    /\ trips(feed).l # <<>>

StopTextReturned == op.name = "StopTimeUpdate.__str__"

\* the 'Projected Departure' part of the text for a departure time
DepartureText(ts) ==
    <<"P", "r", "o", "j", "e", "c", "t", "e", "d", " ", "D", "e", "p", "a", "r", "t", "u", "r", "e", " ">>
        \o strftime(ts + UtcOffset) \o <<".", " ">>

\* C29: str() of a StopTimeUpdate returns text for every combination of present and absent
\* arrival, departure, scheduled_track and actual_track, and with a departure present the
\* text has the part 'Projected Departure' with the departure time.
C29_StopTimeText ==
    StopTextReturned =>
        /\ ret.t = "str"
        /\ stop_time._stop_time_update.departure # None =>
               Contains(ret.s, DepartureText(stop_time._stop_time_update.departure.time))

\* C29, the part that holds: with the arrival present, and the departure absent or at the
\* time of the arrival, str() returns the text as claimed
C29_HoldsWithArrival ==
    (/\ StopTextReturned
     /\ stop_time._stop_time_update.arrival # None
     /\ stop_time._stop_time_update.departure
            \in {None, stop_time._stop_time_update.arrival}) =>
        /\ ret.t = "str"
        /\ stop_time._stop_time_update.departure # None =>
               Contains(ret.s, DepartureText(stop_time._stop_time_update.departure.time))

\* C29: str() of a StopTimeUpdate with a departure and no arrival has raised AttributeError
C29_OriginStopRaises ==
    /\ StopTextReturned
    /\ stop_time._stop_time_update.arrival = None
    /\ stop_time._stop_time_update.departure # None
    /\ ret = Raise("AttributeError")

\* C29: str() of a StopTimeUpdate whose departure is later than its arrival has returned a
\* text without the departure time
C29_ArrivalShownAsDeparture ==
    /\ StopTextReturned
    /\ stop_time._stop_time_update.arrival = [time |-> FeedTime + 82]
    /\ stop_time._stop_time_update.departure = [time |-> FeedTime + 112]
    /\ ret.t = "str"
    /\ Contains(ret.s, DepartureText(FeedTime + 82))
    /\ ~Contains(ret.s, DepartureText(FeedTime + 112))

\* parse_timestamp has returned
Parsed == op.name = "parse_timestamp" /\ ret # Pending

\* the wall-clock time of the timestamp that was parsed, and how many seconds it is after the
\* feed time that was given
RawParsed == op.args.timestamp + UtcOffset
AheadOfFeed == RawParsed - op.args.feed_datetime.d

\* C30: parse_timestamp returns the time of the timestamp less 60 minutes iff that time is
\* strictly more than 30 minutes after the feed time, and the time itself otherwise, also at
\* exactly 30 minutes; with no feed time it returns the time itself.  A time more than 30
\* and at most 90 minutes after the feed time comes back more than 30 minutes before and at
\* most 30 minutes after the feed time.
C30_ParseTimestamp ==
    Parsed =>
        /\ ret.t = "datetime"
        /\ op.args.feed_datetime = None => ret.d = RawParsed
        /\ op.args.feed_datetime # None =>
               /\ AheadOfFeed > 1800 <=> ret.d = RawParsed - 3600
               /\ AheadOfFeed <= 1800 <=> ret.d = RawParsed
               /\ (AheadOfFeed > 1800 /\ AheadOfFeed <= 5400) =>
                      /\ ret.d - op.args.feed_datetime.d > 0 - 1800
                      /\ ret.d - op.args.feed_datetime.d <= 1800

\* a timestamp exactly 30 minutes after the feed time has come back unchanged
C30_Witness ==
    /\ Parsed
    /\ op.args.feed_datetime # None
    /\ AheadOfFeed = 1800
    /\ ret.d = RawParsed

\* a timestamp 30 minutes and a second after the feed time has come back an hour earlier
C30_WitnessCorrected ==
    /\ Parsed
    /\ op.args.feed_datetime # None
    /\ AheadOfFeed = 1801
    /\ ret.d = RawParsed - 3600

\* a timestamp 90 minutes after the feed time has come back 30 minutes after it, and with no
\* feed time unchanged
C30_WitnessUpperEnd ==
    /\ Parsed
    /\ op.args.feed_datetime # None
    /\ AheadOfFeed = 5400
    /\ ret.d - op.args.feed_datetime.d = 1800

====
